---- MODULE Spec2Model ----
(***************************************************************************)
(* Verification model of the HFT-System-CPP core:                          *)
(*   - market_data::OrderBook   (src/market_data/order_book.cpp)           *)
(*   - core::MemoryPool         (include/core/memory_pool.hpp)             *)
(*   - core::LockFreeQueue      (include/core/lock_free_queue.hpp)         *)
(*                                                                         *)
(* Three specifications share the module:                                  *)
(*   Spec      the order book driven by addOrder/cancelOrder/modifyOrder   *)
(*   SpecQueue one producer thread and one consumer thread on a queue      *)
(*   SpecPool  a client allocating from and releasing to a MemoryPool      *)
(***************************************************************************)
EXTENDS Integers, Sequences, FiniteSets, TLC

(***************************************************************************)
(* Program constants and model bounds                                      *)
(***************************************************************************)

\* enum class Side : uint8_t
BUY == 0
SELL == 1

\* OrderBook::base_price_ and OrderBook::MAX_PRICE_LEVELS
base_price_ == 10000
MAX_PRICE_LEVELS == 20000

\* The null pointer; pool cells are named 1, 2, 3, ...
nullptr == 0

\* Width (bits) of the modelled uint64_t price / size_t arithmetic.  The
\* width is scaled down so that base_price_ + MAX_PRICE_LEVELS still fits.
PriceBits == 15
PriceMod == 2 ^ PriceBits
UINT64_MAX == PriceMod - 1

\* Width (bits) of the modelled uint32_t quantity arithmetic (scaled down
\* so that a level's total_quantity can wrap around within the bounds).
QtyBits == 2
QtyMod == 2 ^ QtyBits

\* MemoryPool<T, BlockSize>: cells per block (scaled down) and the number of
\* blocks the model lets the pool obtain from ::operator new.
BlockSize == 2
MaxBlocks == 2
Cells == 1 .. (MaxBlocks * BlockSize)

\* Number of allocate/deallocate calls of the pool's client in one behaviour.
MaxPoolCalls == 8

\* Number of OrderBook calls in one behaviour.
MaxCalls == 4

\* Inputs of the order book operations.
OrderIds == {1, 2}
Sides == {BUY, SELL}
\* one price below the ladder (its level index wraps around) and two on it
Prices == {base_price_ - 1, base_price_, base_price_ + 1}
\* quantities of new orders (addOrder does not look at the quantity before
\* matching, so 0 is an input)
Qtys == {0, 1, 2}
\* the new_quantity of modifyOrder
ModQtys == {0, 1, 2}
Timestamps == {0}

\* LockFreeQueue<T, Size>: Size = 2 ^ SizeBits slots (a power of two, as the
\* static_assert demands), and the number of push calls of the producer.
SizeBits == 2
Size == 2 ^ SizeBits
MaxPush == Size + 2

\* replay of a call sequence on two books: calls made, and the values
\* core::Timer::timestamp_ns() may return
MaxReplayCalls == 3
ClockReadings == {1, 2}

\* interview OrderBook: calls made, order types, prices (two levels a side)
\* and quantities of the orders
MaxInterviewCalls == 3
OrderTypes == {"LIMIT", "MARKET", "IOC", "FOK"}
InterviewPrices == {100, 101}
InterviewQtys == {1, 2}

Min(a, b) == IF a <= b THEN a ELSE b
SetMax(S) == CHOOSE x \in S : \A y \in S : y <= x
SetMin(S) == CHOOSE x \in S : \A y \in S : x <= y

\* size_t level_idx = price - base_price_  (unsigned wrap-around)
LevelIndex(price) == (price - base_price_) % PriceMod

\* The entries of bid_levels_ / ask_levels_ the inputs can touch.  Every
\* other entry of the two arrays stays PriceLevel{} for ever, so the arrays
\* are kept only on these indices.
LevelIdx == {LevelIndex(p) : p \in {q \in Prices : LevelIndex(q) < MAX_PRICE_LEVELS}}

VARIABLES
    \* ---- OrderBook ----
    bid_levels_,    \* [LevelIdx -> PriceLevel]
    ask_levels_,    \* [LevelIdx -> PriceLevel]
    best_bid_,
    best_ask_,
    order_pool_,    \* MemoryPool<OrderNode>
    nodes,          \* payload of the pool cells: [Cells -> OrderNode]
    order_map_,     \* [OrderIds -> cell or nullptr]
    total_volume_,
    trade_count_,
    trades,         \* Trade records built by executeTrade during the last call
    matches,        \* history: for each of them, both orders as they were
    admit,          \* history: [Cells -> [seq: call number of the addToBook, or 0,
                    \*                      fills: trades made against the node,
                    \*                      raised: call number of the last modifyOrder
                    \*                              that increased its quantity, or 0]]
    ncalls,         \* history: number of calls made
    last_op,        \* history: the last call, its result and residual
    round_trip      \* history: an addOrder and the book before it, up to the
                    \*          cancelOrder of the order it added

VARIABLES
    \* ---- LockFreeQueue, one producer thread and one consumer thread ----
    head_,          \* std::atomic<size_t>
    tail_,          \* std::atomic<size_t>
    buffer_,        \* [0 .. Size-1 -> item]
    p_pc,           \* producer: "idle", "check", "write", "publish"
    item,           \* push(): the argument
    current_tail,   \* push(): local
    next_tail,      \* push(): local
    p_ret,          \* history: "none", or what the last push returned: "ok", "full"
    c_pc,           \* consumer: "idle", "check", "read", "publish"
    current_head,   \* pop(): local
    c_item,         \* pop(): local `item`
    c_ret,          \* history: "none", or what the last pop returned: "value", "nullopt"
    pushed,         \* history: the items of the successful pushes, in order
    popped,         \* history: the items returned by pop, in order
    pushes,         \* history: number of push calls started
    p_steps,        \* history: statements the running (or last) push has executed
    c_steps         \* history: statements the running (or last) pop has executed

queueVars == <<head_, tail_, buffer_, p_pc, item, current_tail, next_tail, p_ret,
               c_pc, current_head, c_item, c_ret, pushed, popped, pushes,
               p_steps, c_steps>>

VARIABLES
    \* ---- a MemoryPool and its client ----
    test_pool,      \* the MemoryPool
    held,           \* history: the cells handed out by allocate and not yet given back
    pool_op,        \* history: the last call, the pool and held cells before it, its result
    pool_calls,     \* history: number of calls made
    released        \* history: the cells given back and not handed out since, oldest first

poolVars == <<test_pool, held, pool_op, pool_calls, released>>

VARIABLES
    \* ---- the OrderBook of cpp-interview-solutions/02-hft-datastructures ----
    interview_book,     \* the OrderBook object, a record of its members
    interview_op,       \* history: the last call, its result and the book before it
    interview_calls     \* history: number of calls made

interviewVars == <<interview_book, interview_op, interview_calls>>

VARIABLES
    \* ---- two OrderBooks fed the same calls ----
    replay          \* [first, second: the two books; emitted: the trades each
                    \*  emitted during the last call; results: what the call
                    \*  returned from each; op: the call; calls: calls made]

replayVars == <<replay>>

bookVars == <<bid_levels_, ask_levels_, best_bid_, best_ask_, order_pool_, nodes,
              order_map_, total_volume_, trade_count_, trades, matches, admit,
              ncalls, last_op, round_trip>>

(***************************************************************************)
(* core::MemoryPool<T, BlockSize>                                          *)
(* A pool is [free_list_, next, blocks_]: next[c] is the Node::next of a   *)
(* free cell c; blocks_ is the number of blocks obtained so far, block k   *)
(* (k = 0, 1, ...) being the cells k*BlockSize+1 .. (k+1)*BlockSize.       *)
(***************************************************************************)

NewPool == [free_list_ |-> nullptr, next |-> [c \in Cells |-> nullptr], blocks_ |-> 0]

\* The model can serve ::operator new for at most MaxBlocks blocks.
CanExpand(pool) == pool.blocks_ < MaxBlocks
CanAllocate(pool) == pool.free_list_ # nullptr \/ CanExpand(pool)

\* expandPool whose linking loop stops one cell early
expandPool_shortLoop(pool) ==
    LET new_block == pool.blocks_ * BlockSize + 1
    IN  [pool EXCEPT
            !.blocks_ = @ + 1,
            !.next = [c \in Cells |->
                        IF c >= new_block /\ c < new_block + BlockSize - 2 THEN c + 1
                        ELSE IF c = new_block + BlockSize - 1 THEN pool.free_list_
                        ELSE pool.next[c]],
            !.free_list_ = new_block]

\* MemoryPool::expandPool
expandPool(pool) ==
    LET new_block == pool.blocks_ * BlockSize + 1
    IN  [pool EXCEPT
            !.blocks_ = @ + 1,
            !.next = [c \in Cells |->
                        IF c >= new_block /\ c < new_block + BlockSize - 1 THEN c + 1
                        ELSE IF c = new_block + BlockSize - 1 THEN pool.free_list_
                        ELSE pool.next[c]],
            !.free_list_ = new_block]

\* MemoryPool(): the constructor obtains the first block.
MemoryPoolCtor == expandPool(NewPool)

\* allocate that hands out the head of the free list and leaves it there
allocate_keepHead(pool) ==
    LET p1 == IF pool.free_list_ = nullptr THEN expandPool(pool) ELSE pool
        node == p1.free_list_
    IN  [pool |-> p1, ptr |-> node]

\* allocate(): [pool |-> the pool afterwards, ptr |-> the cell returned]
allocate(pool) ==
    LET p1 == IF pool.free_list_ = nullptr THEN expandPool(pool) ELSE pool
        node == p1.free_list_
    IN  [pool |-> [p1 EXCEPT !.free_list_ = p1.next[node], !.next[node] = nullptr],
         ptr |-> node]

\* deallocate that links the cell behind the head of the free list
deallocate_behindHead(pool, ptr) ==
    IF ptr = nullptr THEN pool
    ELSE IF pool.free_list_ = nullptr
         THEN [pool EXCEPT !.next[ptr] = nullptr, !.free_list_ = ptr]
         ELSE [pool EXCEPT !.next[ptr] = pool.next[pool.free_list_],
                           !.next[pool.free_list_] = ptr]

\* MemoryPool::deallocate
deallocate(pool, ptr) ==
    IF ptr = nullptr THEN pool
    ELSE [pool EXCEPT !.next[ptr] = pool.free_list_, !.free_list_ = ptr]

\* the cells of the free list, walking Node::next from free_list_
RECURSIVE FreeChain(_, _, _)
FreeChain(pool, c, fuel) ==
    IF c = nullptr \/ fuel = 0 THEN <<>>
    ELSE <<c>> \o FreeChain(pool, pool.next[c], fuel - 1)

FreeList(pool) == FreeChain(pool, pool.free_list_, Cardinality(Cells))

\* the cells of block k (k = 0, 1, ...)
BlockCells(k) == (k * BlockSize + 1) .. ((k + 1) * BlockSize)

NoPoolOp == [op |-> "none", ptr |-> nullptr, before |-> NewPool, held |-> {},
             released |-> <<>>]

\* seq without its occurrences of x
Without(seq, x) == SelectSeq(seq, LAMBDA y : y # x)

PoolInit ==
    /\ test_pool = MemoryPoolCtor
    /\ held = {}
    /\ pool_op = NoPoolOp
    /\ pool_calls = 0
    /\ released = <<>>

\* the client calls allocate() and keeps the cell
PoolAllocate ==
    /\ pool_calls < MaxPoolCalls
    /\ CanAllocate(test_pool)
    /\ LET a == allocate(test_pool)
       IN  /\ test_pool' = a.pool
           /\ held' = held \cup {a.ptr}
           /\ pool_op' = [op |-> "allocate", ptr |-> a.ptr, before |-> test_pool,
                          held |-> held, released |-> released]
           /\ released' = Without(released, a.ptr)
    /\ pool_calls' = pool_calls + 1

\* the client gives back one of the cells it holds
PoolDeallocate ==
    /\ pool_calls < MaxPoolCalls
    /\ \E ptr \in held :
          /\ test_pool' = deallocate(test_pool, ptr)
          /\ held' = held \ {ptr}
          /\ pool_op' = [op |-> "deallocate", ptr |-> ptr, before |-> test_pool,
                         held |-> held, released |-> released]
          /\ released' = Append(released, ptr)
    /\ pool_calls' = pool_calls + 1

(***************************************************************************)
(* market_data::OrderBook                                                  *)
(***************************************************************************)

EmptyLevel == [price |-> 0, total_quantity |-> 0, order_count |-> 0,
               head |-> nullptr, tail |-> nullptr]

NoOrder == [order_id |-> 0, price |-> 0, quantity |-> 0, side |-> BUY, timestamp |-> 0]
\* payload of a cell that holds no OrderNode
NoNode == [order |-> NoOrder, next |-> nullptr, prev |-> nullptr, live |-> FALSE]

NotAdmitted == [seq |-> 0, fills |-> 0, raised |-> 0]

NoOp == [op |-> "none", order_id |-> 0, side |-> BUY, price |-> 0, quantity |-> 0,
         residual |-> 0, result |-> FALSE]

\* The book as one value, so that the member functions can be composed.
Book == [bid_levels_ |-> bid_levels_, ask_levels_ |-> ask_levels_,
         best_bid_ |-> best_bid_, best_ask_ |-> best_ask_,
         order_pool_ |-> order_pool_, nodes |-> nodes, order_map_ |-> order_map_,
         total_volume_ |-> total_volume_, trade_count_ |-> trade_count_,
         trades |-> <<>>, matches |-> <<>>, admit |-> admit, now |-> ncalls + 1]

GetLevel(b, side, idx) ==
    IF side = BUY THEN b.bid_levels_[idx] ELSE b.ask_levels_[idx]

SetLevel(b, side, idx, level) ==
    IF side = BUY THEN [b EXCEPT !.bid_levels_[idx] = level]
                  ELSE [b EXCEPT !.ask_levels_[idx] = level]

\* OrderBook::updateBestPrices: scan the bid array from the top and the ask
\* array from the bottom for the first level with order_count > 0.
updateBestPrices(b) ==
    LET bi == {i \in LevelIdx : b.bid_levels_[i].order_count > 0}
        ai == {i \in LevelIdx : b.ask_levels_[i].order_count > 0}
    IN  [b EXCEPT
            !.best_bid_ = IF bi = {} THEN 0 ELSE b.bid_levels_[SetMax(bi)].price,
            !.best_ask_ = IF ai = {} THEN UINT64_MAX ELSE b.ask_levels_[SetMin(ai)].price]

\* Orders admitted before `node`, on its side and at its price, that still
\* rest with remaining quantity (history, for the time-priority claim).
EarlierResting(b, node) ==
    {c \in Cells : /\ b.nodes[c].live
                   /\ c # node
                   /\ b.nodes[c].order.side = b.nodes[node].order.side
                   /\ b.nodes[c].order.price = b.nodes[node].order.price
                   /\ b.nodes[c].order.quantity > 0
                   /\ b.admit[c].seq < b.admit[node].seq}

\* Orders admitted after `node` that rest on its side at its price.
LaterResting(b, node) ==
    {c \in Cells : /\ b.nodes[c].live
                   /\ b.nodes[c].order.side = b.nodes[node].order.side
                   /\ b.nodes[c].order.price = b.nodes[node].order.price
                   /\ b.admit[c].seq > b.admit[node].seq}

\* Orders that rest with remaining quantity on the side and at the price of
\* `node` and were resting there when the quantity of `node` was last raised.
RestingAtRaise(b, node) ==
    {c \in Cells : /\ b.nodes[c].live
                   /\ c # node
                   /\ b.nodes[c].order.side = b.nodes[node].order.side
                   /\ b.nodes[c].order.price = b.nodes[node].order.price
                   /\ b.nodes[c].order.quantity > 0
                   /\ b.admit[c].seq < b.admit[node].raised
                   /\ b.admit[c].raised < b.admit[node].raised}

\* executeTrade that counts the trade but does not add its quantity to total_volume_
executeTrade_noVolume(b, passive_node, aggressive_order, trade_qty) ==
    LET passive == b.nodes[passive_node].order
        trade == [buy_order_id |-> IF passive.side = BUY THEN passive.order_id
                                   ELSE aggressive_order.order_id,
                  sell_order_id |-> IF passive.side = SELL THEN passive.order_id
                                    ELSE aggressive_order.order_id,
                  price |-> passive.price,
                  quantity |-> trade_qty]
        match == [aggressive |-> aggressive_order, passive |-> passive,
                  cell |-> passive_node,
                  fills |-> b.admit[passive_node].fills,
                  earlier |-> EarlierResting(b, passive_node),
                  later |-> LaterResting(b, passive_node),
                  overtaken |-> RestingAtRaise(b, passive_node)]
    IN  [b EXCEPT !.trades = Append(@, trade),
                  !.matches = Append(@, match),
                  !.admit[passive_node].fills = @ + 1,
                  !.trade_count_ = @ + 1]

\* executeTrade pricing the trade at the aggressor's limit
executeTrade_aggressorPrice(b, passive_node, aggressive_order, trade_qty) ==
    LET passive == b.nodes[passive_node].order
        trade == [buy_order_id |-> IF passive.side = BUY THEN passive.order_id
                                   ELSE aggressive_order.order_id,
                  sell_order_id |-> IF passive.side = SELL THEN passive.order_id
                                    ELSE aggressive_order.order_id,
                  price |-> aggressive_order.price,
                  quantity |-> trade_qty]
        match == [aggressive |-> aggressive_order, passive |-> passive,
                  cell |-> passive_node,
                  fills |-> b.admit[passive_node].fills,
                  earlier |-> EarlierResting(b, passive_node),
                  later |-> LaterResting(b, passive_node),
                  overtaken |-> RestingAtRaise(b, passive_node)]
    IN  [b EXCEPT !.trades = Append(@, trade),
                  !.matches = Append(@, match),
                  !.admit[passive_node].fills = @ + 1,
                  !.total_volume_ = @ + trade_qty,
                  !.trade_count_ = @ + 1]

\* OrderBook::executeTrade
executeTrade(b, passive_node, aggressive_order, trade_qty) ==
    LET passive == b.nodes[passive_node].order
        trade == [buy_order_id |-> IF passive.side = BUY THEN passive.order_id
                                   ELSE aggressive_order.order_id,
                  sell_order_id |-> IF passive.side = SELL THEN passive.order_id
                                    ELSE aggressive_order.order_id,
                  price |-> passive.price,
                  quantity |-> trade_qty]
        match == [aggressive |-> aggressive_order, passive |-> passive,
                  cell |-> passive_node,
                  fills |-> b.admit[passive_node].fills,
                  earlier |-> EarlierResting(b, passive_node),
                  later |-> LaterResting(b, passive_node),
                  overtaken |-> RestingAtRaise(b, passive_node)]
    IN  [b EXCEPT !.trades = Append(@, trade),
                  !.matches = Append(@, match),
                  !.admit[passive_node].fills = @ + 1,
                  !.total_volume_ = @ + trade_qty,
                  !.trade_count_ = @ + 1]

\* removeFromBook that leaves the price of a level it has emptied
removeFromBook_keepPrice(b, node, side, idx) ==
    LET n == b.nodes[node]
        l0 == GetLevel(b, side, idx)
        nodes1 == IF n.prev # nullptr THEN [b.nodes EXCEPT ![n.prev].next = n.next]
                  ELSE b.nodes
        l1 == IF n.prev # nullptr THEN l0 ELSE [l0 EXCEPT !.head = n.next]
        nodes2 == IF n.next # nullptr THEN [nodes1 EXCEPT ![n.next].prev = n.prev]
                  ELSE nodes1
        l2 == IF n.next # nullptr THEN l1 ELSE [l1 EXCEPT !.tail = n.prev]
        l3 == [l2 EXCEPT !.order_count = @ - 1]
        l4 == IF l3.order_count = 0
              THEN [l3 EXCEPT !.total_quantity = 0]
              ELSE l3
        b1 == SetLevel([b EXCEPT !.nodes = nodes2], side, idx, l4)
    IN  [b1 EXCEPT !.order_map_[n.order.order_id] = nullptr,
                   !.order_pool_ = deallocate(b1.order_pool_, node),
                   !.nodes[node] = NoNode,
                   !.admit[node] = NotAdmitted]

\* OrderBook::removeFromBook(node, level), level = the (side, idx) entry
removeFromBook(b, node, side, idx) ==
    LET n == b.nodes[node]
        l0 == GetLevel(b, side, idx)
        nodes1 == IF n.prev # nullptr THEN [b.nodes EXCEPT ![n.prev].next = n.next]
                  ELSE b.nodes
        l1 == IF n.prev # nullptr THEN l0 ELSE [l0 EXCEPT !.head = n.next]
        nodes2 == IF n.next # nullptr THEN [nodes1 EXCEPT ![n.next].prev = n.prev]
                  ELSE nodes1
        l2 == IF n.next # nullptr THEN l1 ELSE [l1 EXCEPT !.tail = n.prev]
        l3 == [l2 EXCEPT !.order_count = @ - 1]
        l4 == IF l3.order_count = 0
              THEN [l3 EXCEPT !.total_quantity = 0, !.price = 0]
              ELSE l3
        b1 == SetLevel([b EXCEPT !.nodes = nodes2], side, idx, l4)
    IN  [b1 EXCEPT !.order_map_[n.order.order_id] = nullptr,
                   !.order_pool_ = deallocate(b1.order_pool_, node),
                   !.nodes[node] = NoNode,
                   !.admit[node] = NotAdmitted]

\* addToBook linking the new node at the head of its level
addToBook_atHead(b, order) ==
    LET level_idx == LevelIndex(order.price)
    IN  IF level_idx >= MAX_PRICE_LEVELS THEN b
        ELSE
        LET level == GetLevel(b, order.side, level_idx)
            a == allocate(b.order_pool_)
            node == a.ptr
            nodes1 == [b.nodes EXCEPT ![node] = [order |-> order, next |-> level.head,
                                                 prev |-> nullptr, live |-> TRUE]]
            nodes2 == IF level.head # nullptr
                      THEN [nodes1 EXCEPT ![level.head].prev = node]
                      ELSE nodes1
            l1 == IF level.head # nullptr THEN level ELSE [level EXCEPT !.tail = node]
            l2 == [l1 EXCEPT !.head = node,
                             !.price = order.price,
                             !.total_quantity = (@ + order.quantity) % QtyMod,
                             !.order_count = @ + 1]
            b1 == SetLevel([b EXCEPT !.order_pool_ = a.pool, !.nodes = nodes2,
                                     !.admit[node] = [seq |-> b.now, fills |-> 0, raised |-> 0]],
                           order.side, level_idx, l2)
        IN  updateBestPrices([b1 EXCEPT !.order_map_[order.order_id] = node])

\* OrderBook::addToBook
addToBook(b, order) ==
    LET level_idx == LevelIndex(order.price)
    IN  IF level_idx >= MAX_PRICE_LEVELS THEN b
        ELSE
        LET level == GetLevel(b, order.side, level_idx)
            a == allocate(b.order_pool_)
            node == a.ptr
            nodes1 == [b.nodes EXCEPT ![node] = [order |-> order, next |-> nullptr,
                                                 prev |-> level.tail, live |-> TRUE]]
            nodes2 == IF level.tail # nullptr
                      THEN [nodes1 EXCEPT ![level.tail].next = node]
                      ELSE nodes1
            l1 == IF level.tail # nullptr THEN level ELSE [level EXCEPT !.head = node]
            l2 == [l1 EXCEPT !.tail = node,
                             !.price = order.price,
                             !.total_quantity = (@ + order.quantity) % QtyMod,
                             !.order_count = @ + 1]
            b1 == SetLevel([b EXCEPT !.order_pool_ = a.pool, !.nodes = nodes2,
                                     !.admit[node] = [seq |-> b.now, fills |-> 0, raised |-> 0]],
                           order.side, level_idx, l2)
        IN  updateBestPrices([b1 EXCEPT !.order_map_[order.order_id] = node])

\* the while loop of OrderBook::matchOrder (both branches)
RECURSIVE matchLoop(_, _)
matchLoop(b, order) ==
    LET buy == order.side = BUY
        opp == IF buy THEN SELL ELSE BUY
        best == IF buy THEN b.best_ask_ ELSE b.best_bid_
        cond == /\ order.quantity > 0
                /\ IF buy THEN best # UINT64_MAX /\ order.price >= best
                          ELSE best # 0 /\ order.price <= best
        level_idx == LevelIndex(best)
    IN  IF ~cond THEN [book |-> b, order |-> order]
        ELSE IF level_idx >= MAX_PRICE_LEVELS THEN [book |-> b, order |-> order]
        ELSE
        LET level == GetLevel(b, opp, level_idx)
        IN  IF level.head = nullptr
            THEN [book |-> updateBestPrices(b), order |-> order]
            ELSE
            LET node == level.head
                trade_qty == Min(order.quantity, b.nodes[node].order.quantity)
                b1 == executeTrade(b, node, order, trade_qty)
                b2 == [b1 EXCEPT !.nodes[node].order.quantity = @ - trade_qty]
                order1 == [order EXCEPT !.quantity = @ - trade_qty]
                b3 == SetLevel(b2, opp, level_idx,
                               [level EXCEPT !.total_quantity = (@ - trade_qty) % QtyMod])
                b4 == IF b3.nodes[node].order.quantity = 0
                      THEN removeFromBook(b3, node, opp, level_idx)
                      ELSE b3
            IN  matchLoop(b4, order1)

\* OrderBook::matchOrder: [book |-> ..., order |-> the order with its residual]
matchOrder(b, order) ==
    LET r == matchLoop(b, order)
    IN  [book |-> updateBestPrices(r.book), order |-> r.order]

\* addOrder that books the order as it came in, not what matchOrder left of it
addOrder_fullResidual(b, order) ==
    LET m == matchOrder(b, order)
    IN  [book |-> IF m.order.quantity > 0 THEN addToBook(m.book, order) ELSE m.book,
         result |-> TRUE,
         residual |-> order.quantity]

\* OrderBook::addOrder; [book, result, residual (quantity left by matchOrder)]
addOrder(b, order) ==
    LET m == matchOrder(b, order)
    IN  [book |-> IF m.order.quantity > 0 THEN addToBook(m.book, m.order) ELSE m.book,
         result |-> TRUE,
         residual |-> m.order.quantity]

\* cancelOrder that reports success for an id order_map_ does not hold
cancelOrder_unknownAccepted(b, order_id) ==
    IF b.order_map_[order_id] = nullptr THEN [book |-> b, result |-> TRUE]
    ELSE
    LET node == b.order_map_[order_id]
        o == b.nodes[node].order
        level_idx == LevelIndex(o.price)
    IN  IF level_idx >= MAX_PRICE_LEVELS THEN [book |-> b, result |-> FALSE]
        ELSE
        LET level == GetLevel(b, o.side, level_idx)
            b1 == SetLevel(b, o.side, level_idx,
                           [level EXCEPT !.total_quantity = (@ - o.quantity) % QtyMod])
        IN  [book |-> updateBestPrices(removeFromBook(b1, node, o.side, level_idx)),
             result |-> TRUE]

\* cancelOrder returning without updateBestPrices()
cancelOrder_noUpdate(b, order_id) ==
    IF b.order_map_[order_id] = nullptr THEN [book |-> b, result |-> FALSE]
    ELSE
    LET node == b.order_map_[order_id]
        o == b.nodes[node].order
        level_idx == LevelIndex(o.price)
    IN  IF level_idx >= MAX_PRICE_LEVELS THEN [book |-> b, result |-> FALSE]
        ELSE
        LET level == GetLevel(b, o.side, level_idx)
            b1 == SetLevel(b, o.side, level_idx,
                           [level EXCEPT !.total_quantity = (@ - o.quantity) % QtyMod])
        IN  [book |-> removeFromBook(b1, node, o.side, level_idx), result |-> TRUE]

\* OrderBook::cancelOrder; [book, result]
cancelOrder(b, order_id) ==
    IF b.order_map_[order_id] = nullptr THEN [book |-> b, result |-> FALSE]
    ELSE
    LET node == b.order_map_[order_id]
        o == b.nodes[node].order
        level_idx == LevelIndex(o.price)
    IN  IF level_idx >= MAX_PRICE_LEVELS THEN [book |-> b, result |-> FALSE]
        ELSE
        LET level == GetLevel(b, o.side, level_idx)
            b1 == SetLevel(b, o.side, level_idx,
                           [level EXCEPT !.total_quantity = (@ - o.quantity) % QtyMod])
        IN  [book |-> updateBestPrices(removeFromBook(b1, node, o.side, level_idx)),
             result |-> TRUE]

\* modifyOrder changing the node but not its level's total_quantity
modifyOrder_noTotal(b, order_id, new_quantity) ==
    IF b.order_map_[order_id] = nullptr THEN [book |-> b, result |-> FALSE]
    ELSE
    LET node == b.order_map_[order_id]
        o == b.nodes[node].order
        level_idx == LevelIndex(o.price)
    IN  IF level_idx >= MAX_PRICE_LEVELS THEN [book |-> b, result |-> FALSE]
        ELSE [book |-> [b EXCEPT !.nodes[node].order.quantity = new_quantity],
              result |-> TRUE]

\* OrderBook::modifyOrder; [book, result]
modifyOrder(b, order_id, new_quantity) ==
    IF b.order_map_[order_id] = nullptr THEN [book |-> b, result |-> FALSE]
    ELSE
    LET node == b.order_map_[order_id]
        o == b.nodes[node].order
        level_idx == LevelIndex(o.price)
    IN  IF level_idx >= MAX_PRICE_LEVELS THEN [book |-> b, result |-> FALSE]
        ELSE
        LET level == GetLevel(b, o.side, level_idx)
            b1 == SetLevel(b, o.side, level_idx,
                           [level EXCEPT !.total_quantity =
                                (@ - o.quantity + new_quantity) % QtyMod])
        IN  [book |-> [b1 EXCEPT !.nodes[node].order.quantity = new_quantity,
                                 !.admit[node].raised =
                                     IF new_quantity > o.quantity THEN b.now ELSE @],
             result |-> TRUE]

(***************************************************************************)
(* Specification of the order book                                         *)
(***************************************************************************)

NoRoundTrip == [stage |-> "none", order_id |-> 0, side |-> BUY, price |-> 0,
                before |-> <<>>]

\* OrderBook::OrderBook and the member initialisers of order_book.hpp
BookInit ==
    /\ bid_levels_ = [i \in LevelIdx |-> EmptyLevel]
    /\ ask_levels_ = [i \in LevelIdx |-> EmptyLevel]
    /\ best_bid_ = 0
    /\ best_ask_ = UINT64_MAX
    /\ order_pool_ = MemoryPoolCtor
    /\ nodes = [c \in Cells |-> NoNode]
    /\ order_map_ = [i \in OrderIds |-> nullptr]
    /\ total_volume_ = 0
    /\ trade_count_ = 0
    /\ trades = <<>>
    /\ matches = <<>>
    /\ admit = [c \in Cells |-> NotAdmitted]
    /\ ncalls = 0
    /\ last_op = NoOp
    /\ round_trip = NoRoundTrip

\* the book after a call, with the history of the call (the bound b makes
\* TLC evaluate the resulting book once)
Returned(book, op) == \E b \in {book} :
    /\ bid_levels_' = b.bid_levels_
    /\ ask_levels_' = b.ask_levels_
    /\ best_bid_' = b.best_bid_
    /\ best_ask_' = b.best_ask_
    /\ order_pool_' = b.order_pool_
    /\ nodes' = b.nodes
    /\ order_map_' = b.order_map_
    /\ total_volume_' = b.total_volume_
    /\ trade_count_' = b.trade_count_
    /\ trades' = b.trades
    /\ matches' = b.matches
    /\ admit' = b.admit
    /\ ncalls' = ncalls + 1
    /\ last_op' = op

AddOrder ==
    /\ ncalls < MaxCalls
    /\ CanAllocate(order_pool_)
    /\ \E id \in OrderIds, p \in Prices, q \in Qtys, s \in Sides, ts \in Timestamps :
          LET order == [order_id |-> id, price |-> p, quantity |-> q, side |-> s,
                        timestamp |-> ts]
          IN  \E r \in {addOrder(Book, order)} :
              Returned(r.book, [op |-> "add", order_id |-> id, side |-> s, price |-> p,
                                quantity |-> q, residual |-> r.residual,
                                result |-> r.result])

CancelOrder ==
    /\ ncalls < MaxCalls
    /\ \E id \in OrderIds :
          \E r \in {cancelOrder(Book, id)} :
              Returned(r.book, [NoOp EXCEPT !.op = "cancel", !.order_id = id,
                                            !.result = r.result])

ModifyOrder ==
    /\ ncalls < MaxCalls
    /\ \E id \in OrderIds, q \in ModQtys :
          \E r \in {modifyOrder(Book, id, q)} :
              Returned(r.book, [NoOp EXCEPT !.op = "modify", !.order_id = id,
                                            !.quantity = q, !.result = r.result])

(***************************************************************************)
(* core::LockFreeQueue<T, Size>                                            *)
(* push and pop are split at their accesses to head_, tail_ and buffer_:   *)
(* the atomics are read and written in single steps (the acquire/release   *)
(* pairs of the code order the buffer accesses around them).               *)
(***************************************************************************)

\* an index stored without the mask
NextIndex_unmasked(i) == i + 1

\* (i + 1) & (Size - 1), Size being a power of two
NextIndex(i) == (i + 1) % Size

\* a fullness test that keeps two slots free: ((next_tail + 1) & (Size - 1)) == head
QueueFull_twoFree(nt, h) == NextIndex(nt) = h

\* push(): next_tail == head_.load(acquire)
QueueFull_unchecked(nt, h) == FALSE

QueueFull(nt, h) == nt = h

\* pop(): current_head == tail_.load(acquire)
QueueEmpty_unchecked(ch, t) == FALSE

QueueEmpty(ch, t) == ch = t

\* LockFreeQueue(): head_(0), tail_(0); the slots hold T{}
\* empty(): head_.load(acquire) == tail_.load(acquire)
empty(h, t) == h = t

\* size() without the branch for a tail that has wrapped behind the head
size_noWrap(h, t) == t - h

\* size(): (t >= h) ? (t - h) : (Size - h + t)
size(h, t) == IF t >= h THEN t - h ELSE Size - h + t

QueueInit ==
    /\ head_ = 0
    /\ tail_ = 0
    /\ buffer_ = [i \in 0 .. Size - 1 |-> 0]
    /\ p_pc = "idle"
    /\ item = 0
    /\ current_tail = 0
    /\ next_tail = 0
    /\ p_ret = "none"
    /\ c_pc = "idle"
    /\ current_head = 0
    /\ c_item = 0
    /\ c_ret = "none"
    /\ pushed = <<>>
    /\ popped = <<>>
    /\ pushes = 0
    /\ p_steps = 0
    /\ c_steps = 0

producerVars == <<p_pc, item, current_tail, next_tail, p_ret, pushed, pushes, p_steps>>
consumerVars == <<c_pc, current_head, c_item, c_ret, popped, c_steps>>

\* push(item) is called (the k-th call pushes the item k):
\* current_tail = tail_.load(relaxed); next_tail = (current_tail + 1) & (Size - 1)
PushLoadTail ==
    /\ p_pc = "idle"
    /\ pushes < MaxPush
    /\ pushes' = pushes + 1
    /\ item' = pushes + 1
    /\ current_tail' = tail_
    /\ next_tail' = NextIndex(tail_)
    /\ p_ret' = "none"
    /\ p_pc' = "check"
    /\ p_steps' = 1
    /\ UNCHANGED <<head_, tail_, buffer_, pushed, consumerVars>>

\* a push that publishes the new tail before it has written the slot
PushCheckFull_publishFirst ==
    /\ p_pc = "check"
    /\ IF QueueFull(next_tail, head_)
       THEN p_pc' = "idle" /\ p_ret' = "full" /\ tail_' = tail_
       ELSE p_pc' = "write" /\ p_ret' = p_ret /\ tail_' = next_tail
    /\ p_steps' = p_steps + 1
    /\ UNCHANGED <<head_, buffer_, item, current_tail, next_tail, pushed, pushes,
                   consumerVars>>

\* a push that waits for room: while (next_tail == head_.load(acquire)) { }
PushCheckFull_retry ==
    /\ p_pc = "check"
    /\ IF QueueFull(next_tail, head_)
       THEN p_pc' = "check" /\ p_ret' = p_ret
       ELSE p_pc' = "write" /\ p_ret' = p_ret
    /\ p_steps' = p_steps + 1
    /\ UNCHANGED <<head_, tail_, buffer_, item, current_tail, next_tail, pushed, pushes,
                   consumerVars>>

\* if (next_tail == head_.load(acquire)) return false;
PushCheckFull ==
    /\ p_pc = "check"
    /\ IF QueueFull(next_tail, head_)
       THEN p_pc' = "idle" /\ p_ret' = "full"
       ELSE p_pc' = "write" /\ p_ret' = p_ret
    /\ p_steps' = p_steps + 1
    /\ UNCHANGED <<head_, tail_, buffer_, item, current_tail, next_tail, pushed, pushes,
                   consumerVars>>

\* buffer_[current_tail] = item;
PushWriteSlot ==
    /\ p_pc = "write"
    /\ buffer_' = [buffer_ EXCEPT ![current_tail] = item]
    /\ p_pc' = "publish"
    /\ p_steps' = p_steps + 1
    /\ UNCHANGED <<head_, tail_, item, current_tail, next_tail, p_ret, pushed, pushes,
                   consumerVars>>

\* tail_.store(next_tail, release); return true;
PushPublish ==
    /\ p_pc = "publish"
    /\ tail_' = next_tail
    /\ p_pc' = "idle"
    /\ p_ret' = "ok"
    /\ pushed' = Append(pushed, item)
    /\ p_steps' = p_steps + 1
    /\ UNCHANGED <<head_, buffer_, item, current_tail, next_tail, pushes, consumerVars>>

\* pop() is called: current_head = head_.load(relaxed)
PopLoadHead ==
    /\ c_pc = "idle"
    /\ current_head' = head_
    /\ c_ret' = "none"
    /\ c_pc' = "check"
    /\ c_steps' = 1
    /\ UNCHANGED <<head_, tail_, buffer_, c_item, popped, producerVars>>

\* if (current_head == tail_.load(acquire)) return std::nullopt;
PopCheckEmpty ==
    /\ c_pc = "check"
    /\ IF QueueEmpty(current_head, tail_)
       THEN c_pc' = "idle" /\ c_ret' = "nullopt"
       ELSE c_pc' = "read" /\ c_ret' = c_ret
    /\ c_steps' = c_steps + 1
    /\ UNCHANGED <<head_, tail_, buffer_, current_head, c_item, popped, producerVars>>

\* T item = std::move(buffer_[current_head]);
PopReadSlot ==
    /\ c_pc = "read"
    /\ c_item' = buffer_[current_head]
    /\ c_pc' = "publish"
    /\ c_steps' = c_steps + 1
    /\ UNCHANGED <<head_, tail_, buffer_, current_head, c_ret, popped, producerVars>>

\* head_.store((current_head + 1) & (Size - 1), release); return item;
PopPublish ==
    /\ c_pc = "publish"
    /\ head_' = NextIndex(current_head)
    /\ c_pc' = "idle"
    /\ c_ret' = "value"
    /\ popped' = Append(popped, c_item)
    /\ c_steps' = c_steps + 1
    /\ UNCHANGED <<tail_, buffer_, current_head, c_item, producerVars>>

(***************************************************************************)
(* cpp-interview-solutions/02-hft-datastructures: Order, PriceLevel and    *)
(* OrderBook.  The book is one record; a std::shared_ptr<Order> is the id  *)
(* of the Order it points to, the Order itself being orders_[id].          *)
(* Timestamps are left out: no decision of the code reads them.            *)
(***************************************************************************)

\* Order::Order
NewOrder(id, s, t, p, q) ==
    [order_id |-> id, side |-> s, type |-> t, price |-> p, quantity |-> q,
     filled_quantity |-> 0, status |-> "NEW"]

remaining_quantity(order) == order.quantity - order.filled_quantity

is_active(order) == order.status \in {"NEW", "PARTIALLY_FILLED"}

\* PriceLevel::PriceLevel
NewPriceLevel(price) == [price_ |-> price, orders_ |-> <<>>, total_quantity_ |-> 0]

\* PriceLevel::add_order
level_add_order(level, order) ==
    [level EXCEPT !.orders_ = Append(@, order.order_id),
                  !.total_quantity_ = @ + remaining_quantity(order)]

\* PriceLevel::remove_order
remove_order(level, order) ==
    IF \E k \in 1 .. Len(level.orders_) : level.orders_[k] = order.order_id
    THEN LET k == CHOOSE i \in 1 .. Len(level.orders_) :
                     /\ level.orders_[i] = order.order_id
                     /\ \A j \in 1 .. (i - 1) : level.orders_[j] # order.order_id
         IN  [level EXCEPT !.total_quantity_ = @ - remaining_quantity(order),
                           !.orders_ = SubSeq(@, 1, k - 1) \o SubSeq(@, k + 1, Len(@))]
    ELSE level

\* PriceLevel::update_quantity
update_quantity(level, order_id, filled_qty) ==
    IF \E k \in 1 .. Len(level.orders_) : level.orders_[k] = order_id
    THEN [level EXCEPT !.total_quantity_ = @ - filled_qty]
    ELSE level

\* PriceLevel::pop_front; front_order is the Order at the front, as it is now
pop_front(level, front_order) ==
    IF level.orders_ # <<>>
    THEN [level EXCEPT !.total_quantity_ = @ - remaining_quantity(front_order),
                       !.orders_ = Tail(@)]
    ELSE level

\* a std::map without entries
EmptyMap == [p \in {} |-> NewPriceLevel(p)]

\* OrderBook::OrderBook
NewOrderBook ==
    [buy_levels_ |-> EmptyMap, sell_levels_ |-> EmptyMap, orders_ |-> <<>>,
     next_order_id_ |-> 1, trades_ |-> <<>>,
     total_orders_added_ |-> 0, total_orders_cancelled_ |-> 0,
     total_trades_ |-> 0, total_volume_ |-> 0]

\* the std::map of a side, a function from the prices that have a level
LevelsOf(ob, side) == IF side = BUY THEN ob.buy_levels_ ELSE ob.sell_levels_

SetLevelsOf(ob, side, levels) ==
    IF side = BUY THEN [ob EXCEPT !.buy_levels_ = levels]
                  ELSE [ob EXCEPT !.sell_levels_ = levels]

\* std::map::erase and std::map::emplace / assignment through an iterator
MapErase(levels, price) == [p \in DOMAIN levels \ {price} |-> levels[p]]
MapPut(levels, price, level) ==
    [p \in DOMAIN levels \cup {price} |-> IF p = price THEN level ELSE levels[p]]

\* begin() of a side: std::greater for the buy side, std::less for the sell side
BeginPrice(ob, side) ==
    IF side = BUY THEN SetMax(DOMAIN ob.buy_levels_) ELSE SetMin(DOMAIN ob.sell_levels_)

\* OrderBook::execute_trade
execute_trade(ob, aggressor, passive, price, quantity) ==
    LET trade == [buy_order_id |-> IF aggressor.side = BUY THEN aggressor.order_id
                                   ELSE passive.order_id,
                  sell_order_id |-> IF aggressor.side = SELL THEN aggressor.order_id
                                    ELSE passive.order_id,
                  price |-> price,
                  quantity |-> quantity]
    IN  [ob EXCEPT !.trades_ = Append(@, trade),
                   !.total_trades_ = @ + 1,
                   !.total_volume_ = @ + quantity]

\* OrderBook::add_to_book
add_to_book(ob, order) ==
    LET levels == LevelsOf(ob, order.side)
        level == IF order.price \in DOMAIN levels THEN levels[order.price]
                 ELSE NewPriceLevel(order.price)
    IN  SetLevelsOf(ob, order.side,
                    MapPut(levels, order.price, level_add_order(level, order)))

\* the inner loop of match_order: the order `id` against the level at `price`
\* of the contra side
RECURSIVE matchLevel(_, _, _, _)
matchLevel(ob, id, contra_side, price) ==
    LET order == ob.orders_[id]
        level == LevelsOf(ob, contra_side)[price]
    IN  IF ~(is_active(order) /\ level.orders_ # <<>>) THEN ob
        ELSE
        LET contra_id == Head(level.orders_)
            contra_order == ob.orders_[contra_id]
            match_qty == Min(remaining_quantity(order), remaining_quantity(contra_order))
            ob1 == execute_trade(ob, order, contra_order, level.price_, match_qty)
            ob2 == [ob1 EXCEPT !.orders_[id].filled_quantity = @ + match_qty,
                               !.orders_[contra_id].filled_quantity = @ + match_qty]
            contra2 == ob2.orders_[contra_id]
            ob3 == IF remaining_quantity(contra2) = 0
                   THEN SetLevelsOf([ob2 EXCEPT !.orders_[contra_id].status = "FILLED"],
                                    contra_side,
                                    MapPut(LevelsOf(ob2, contra_side), price,
                                           pop_front(level, contra2)))
                   ELSE SetLevelsOf([ob2 EXCEPT !.orders_[contra_id].status =
                                                      "PARTIALLY_FILLED"],
                                    contra_side,
                                    MapPut(LevelsOf(ob2, contra_side), price,
                                           update_quantity(level, contra_id, match_qty)))
            ob4 == [ob3 EXCEPT !.orders_[id].status =
                        IF remaining_quantity(ob3.orders_[id]) = 0 THEN "FILLED"
                        ELSE "PARTIALLY_FILLED"]
        IN  matchLevel(ob4, id, contra_side, price)

\* OrderBook::match_order, the order being orders_[id]
RECURSIVE match_order(_, _)
match_order(ob, id) ==
    LET order == ob.orders_[id]
        contra_side == IF order.side = BUY THEN SELL ELSE BUY
        contra_levels == LevelsOf(ob, contra_side)
    IN  IF ~(is_active(order) /\ DOMAIN contra_levels # {}) THEN ob
        ELSE
        LET price == BeginPrice(ob, contra_side)
            level == contra_levels[price]
            price_matches == IF order.type = "MARKET" THEN TRUE
                             ELSE IF order.side = BUY THEN order.price >= level.price_
                             ELSE order.price <= level.price_
        IN  IF ~price_matches THEN ob
            ELSE
            LET ob1 == matchLevel(ob, id, contra_side, price)
                levels1 == LevelsOf(ob1, contra_side)
                ob2 == IF levels1[price].orders_ = <<>>
                       THEN SetLevelsOf(ob1, contra_side, MapErase(levels1, price))
                       ELSE ob1
            IN  match_order(ob2, id)

\* cancel_order that leaves the status of the order as it is
cancel_order_keepStatus(ob, order_id) ==
    IF order_id \notin DOMAIN ob.orders_ THEN [book |-> ob, result |-> FALSE]
    ELSE
    LET order == ob.orders_[order_id]
    IN  IF ~is_active(order) THEN [book |-> ob, result |-> FALSE]
        ELSE
        LET levels == LevelsOf(ob, order.side)
            ob1 == IF order.price \in DOMAIN levels
                   THEN LET level == remove_order(levels[order.price], order)
                        IN  SetLevelsOf(ob, order.side,
                                IF level.orders_ = <<>> THEN MapErase(levels, order.price)
                                ELSE MapPut(levels, order.price, level))
                   ELSE ob
        IN  [book |-> [ob1 EXCEPT !.total_orders_cancelled_ = @ + 1],
             result |-> TRUE]

\* OrderBook::cancel_order; [book, result]
cancel_order(ob, order_id) ==
    IF order_id \notin DOMAIN ob.orders_ THEN [book |-> ob, result |-> FALSE]
    ELSE
    LET order == ob.orders_[order_id]
    IN  IF ~is_active(order) THEN [book |-> ob, result |-> FALSE]
        ELSE
        LET levels == LevelsOf(ob, order.side)
            ob1 == IF order.price \in DOMAIN levels
                   THEN LET level == remove_order(levels[order.price], order)
                        IN  SetLevelsOf(ob, order.side,
                                IF level.orders_ = <<>> THEN MapErase(levels, order.price)
                                ELSE MapPut(levels, order.price, level))
                   ELSE ob
        IN  [book |-> [ob1 EXCEPT !.orders_[order_id].status = "CANCELLED",
                                  !.total_orders_cancelled_ = @ + 1],
             result |-> TRUE]

\* OrderBook::add_order; [book, order_id]
add_order(ob, side, type, price, quantity) ==
    LET order_id == ob.next_order_id_
        ob1 == [ob EXCEPT !.next_order_id_ = @ + 1,
                          !.orders_ = Append(@, NewOrder(order_id, side, type, price,
                                                         quantity)),
                          !.total_orders_added_ = @ + 1]
        ob2 == match_order(ob1, order_id)
        ob3 == IF type \in {"MARKET", "IOC", "FOK"}
               THEN IF type \in {"IOC", "FOK"} /\ is_active(ob2.orders_[order_id])
                    THEN cancel_order(ob2, order_id).book
                    ELSE ob2
               ELSE IF is_active(ob2.orders_[order_id])
                    THEN add_to_book(ob2, ob2.orders_[order_id])
                    ELSE ob2
    IN  [book |-> ob3, order_id |-> order_id]

\* OrderBook::modify_order; [book, result]
modify_order(ob, order_id, new_price, new_quantity) ==
    IF order_id \notin DOMAIN ob.orders_ \/ ~is_active(ob.orders_[order_id])
    THEN [book |-> ob, result |-> FALSE]
    ELSE
    LET old_order == ob.orders_[order_id]
        ob1 == cancel_order(ob, order_id).book
    IN  [book |-> add_order(ob1, old_order.side, old_order.type, new_price,
                            new_quantity).book,
         result |-> TRUE]

NoInterviewOp ==
    [op |-> "none", order_id |-> 0, side |-> BUY, type |-> "LIMIT", price |-> 0,
     quantity |-> 0, result |-> FALSE, before |-> NewOrderBook]

InterviewInit ==
    /\ interview_book = NewOrderBook
    /\ interview_op = NoInterviewOp
    /\ interview_calls = 0

\* a client calls add_order
InterviewAddOrder ==
    /\ interview_calls < MaxInterviewCalls
    /\ \E s \in Sides, t \in OrderTypes, p \in InterviewPrices, q \in InterviewQtys :
          \E r \in {add_order(interview_book, s, t, p, q)} :
              /\ interview_book' = r.book
              /\ interview_op' = [op |-> "add", order_id |-> r.order_id, side |-> s,
                                  type |-> t, price |-> p, quantity |-> q,
                                  result |-> TRUE, before |-> interview_book]
    /\ interview_calls' = interview_calls + 1

\* a client calls cancel_order with an id handed out before, or with the next
\* id, which orders_ does not hold
InterviewCancelOrder ==
    /\ interview_calls < MaxInterviewCalls
    /\ \E id \in 1 .. interview_book.next_order_id_ :
          \E r \in {cancel_order(interview_book, id)} :
              /\ interview_book' = r.book
              /\ interview_op' = [NoInterviewOp EXCEPT !.op = "cancel", !.order_id = id,
                                      !.result = r.result, !.before = interview_book]
    /\ interview_calls' = interview_calls + 1

\* a client calls modify_order
InterviewModifyOrder ==
    /\ interview_calls < MaxInterviewCalls
    /\ \E id \in 1 .. interview_book.next_order_id_, p \in InterviewPrices,
          q \in InterviewQtys :
          \E r \in {modify_order(interview_book, id, p, q)} :
              /\ interview_book' = r.book
              /\ interview_op' = [NoInterviewOp EXCEPT !.op = "modify", !.order_id = id,
                                      !.price = p, !.quantity = q,
                                      !.result = r.result, !.before = interview_book]
    /\ interview_calls' = interview_calls + 1

(***************************************************************************)
(* Replay: two fresh OrderBooks are fed the same sequence of calls.        *)
(* executeTrade stamps each Trade with core::Timer::timestamp_ns(), a      *)
(* reading of std::chrono::high_resolution_clock: any of ClockReadings.    *)
(***************************************************************************)

\* OrderBook::OrderBook: the book as one value
FreshBook ==
    [bid_levels_ |-> [i \in LevelIdx |-> EmptyLevel],
     ask_levels_ |-> [i \in LevelIdx |-> EmptyLevel],
     best_bid_ |-> 0, best_ask_ |-> UINT64_MAX,
     order_pool_ |-> MemoryPoolCtor, nodes |-> [c \in Cells |-> NoNode],
     order_map_ |-> [i \in OrderIds |-> nullptr],
     total_volume_ |-> 0, trade_count_ |-> 0,
     trades |-> <<>>, matches |-> <<>>, admit |-> [c \in Cells |-> NotAdmitted],
     now |-> 1]

\* the book a call has returned, ready for the next call
AfterCall(b) == [b EXCEPT !.trades = <<>>, !.matches = <<>>, !.now = @ + 1]

\* the Trade records executeTrade hands to the callback for the trades of
\* `list`, under every choice of the clock readings
RECURSIVE Stampings(_)
Stampings(list) ==
    IF list = <<>> THEN {<<>>}
    ELSE {<<[buy_order_id |-> Head(list).buy_order_id,
             sell_order_id |-> Head(list).sell_order_id,
             price |-> Head(list).price,
             quantity |-> Head(list).quantity,
             timestamp |-> t]>> \o rest :
            t \in ClockReadings, rest \in Stampings(Tail(list))}

\* two fresh books; until the first call the record leaves the two books
\* out and ReplayBook supplies them
ReplayInit ==
    replay = [emitted |-> <<<<>>, <<>>>>, results |-> <<FALSE, FALSE>>,
              op |-> "none", calls |-> 0]

\* the k-th of the two books
ReplayBook(k) ==
    IF replay.calls = 0 THEN FreshBook
    ELSE IF k = 1 THEN replay.first ELSE replay.second

\* both books have returned from the same call, each with its own readings
\* of the clock
Replayed(op, r1, r2) ==
    \E s1 \in Stampings(r1.book.trades), s2 \in Stampings(r2.book.trades) :
        replay' = [first |-> AfterCall(r1.book), second |-> AfterCall(r2.book),
                   emitted |-> <<s1, s2>>, results |-> <<r1.result, r2.result>>,
                   op |-> op, calls |-> replay.calls + 1]

ReplayAddOrder ==
    /\ replay.calls < MaxReplayCalls
    /\ CanAllocate(ReplayBook(1).order_pool_)
    /\ CanAllocate(ReplayBook(2).order_pool_)
    /\ \E id \in OrderIds, p \in Prices, q \in Qtys, s \in Sides, ts \in Timestamps :
          LET order == [order_id |-> id, price |-> p, quantity |-> q, side |-> s,
                        timestamp |-> ts]
          IN  \E r1 \in {addOrder(ReplayBook(1), order)},
                 r2 \in {addOrder(ReplayBook(2), order)} : Replayed("add", r1, r2)

ReplayCancelOrder ==
    /\ replay.calls < MaxReplayCalls
    /\ \E id \in OrderIds :
          \E r1 \in {cancelOrder(ReplayBook(1), id)},
             r2 \in {cancelOrder(ReplayBook(2), id)} : Replayed("cancel", r1, r2)

ReplayModifyOrder ==
    /\ replay.calls < MaxReplayCalls
    /\ \E id \in OrderIds, q \in ModQtys :
          \E r1 \in {modifyOrder(ReplayBook(1), id, q)},
             r2 \in {modifyOrder(ReplayBook(2), id, q)} : Replayed("modify", r1, r2)

(***************************************************************************)
(* Logger: message_queue_ and the threads that log through LOG_INFO         *)
(***************************************************************************)

\* the threads that call Logger::log: the main thread (HFTSystem, the
\* strategies, OrderManager::submitOrder) and the gateway's processing
\* thread (simulateExecution -> OrderManager::updateOrderStatus -> LOG_INFO)
LogThreads == {"main", "gateway"}

MaxLogCalls == 3

VARIABLES
    log_head_,      \* message_queue_.head_
    log_tail_,      \* message_queue_.tail_
    log_buffer_,    \* message_queue_.buffer_
    log_pc,         \* per thread: where its push is
    log_frame,      \* per thread: the locals of its push (item, current_tail, next_tail)
    log_calls,      \* history: number of log calls started
    log_accepted,   \* history: the messages whose push returned true
    log_dropped,    \* history: the messages whose push returned false
    w_pc,           \* where the writer thread's pop is
    w_head,         \* the writer's current_head
    w_item,         \* the message the writer has taken out of its slot
    log_written     \* history: the messages the writer thread wrote to the file

loggerVars == <<log_head_, log_tail_, log_buffer_, log_pc, log_frame, log_calls,
                log_accepted, log_dropped, w_pc, w_head, w_item, log_written>>

\* Logger(): message_queue_ empty, no log call running
LoggerInit ==
    /\ log_head_ = 0
    /\ log_tail_ = 0
    /\ log_buffer_ = [i \in 0 .. Size - 1 |-> 0]
    /\ log_pc = [t \in LogThreads |-> "idle"]
    /\ log_frame = [t \in LogThreads |-> [item |-> 0, current_tail |-> 0, next_tail |-> 0]]
    /\ log_calls = 0
    /\ log_accepted = <<>>
    /\ log_dropped = <<>>
    /\ w_pc = "idle"
    /\ w_head = 0
    /\ w_item = 0
    /\ log_written = <<>>

writerVars == <<w_pc, w_head, w_item, log_written>>

\* Logger::log on thread t: LogMessage msg{...}; message_queue_.push(std::move(msg))
\* begins: current_tail = tail_.load(relaxed); next_tail = (current_tail + 1) & (Size - 1)
LogLoadTail(t) ==
    /\ log_pc[t] = "idle"
    /\ log_calls < MaxLogCalls
    /\ log_calls' = log_calls + 1
    /\ log_frame' = [log_frame EXCEPT ![t] = [item |-> log_calls + 1,
                                              current_tail |-> log_tail_,
                                              next_tail |-> NextIndex(log_tail_)]]
    /\ log_pc' = [log_pc EXCEPT ![t] = "check"]
    /\ UNCHANGED <<log_head_, log_tail_, log_buffer_, log_accepted, log_dropped, writerVars>>

\* if (next_tail == head_.load(acquire)) return false;  the message is dropped
LogCheckFull(t) ==
    /\ log_pc[t] = "check"
    /\ IF QueueFull(log_frame[t].next_tail, log_head_)
       THEN /\ log_pc' = [log_pc EXCEPT ![t] = "idle"]
            /\ log_dropped' = Append(log_dropped, log_frame[t].item)
       ELSE /\ log_pc' = [log_pc EXCEPT ![t] = "write"]
            /\ log_dropped' = log_dropped
    /\ UNCHANGED <<log_head_, log_tail_, log_buffer_, log_frame, log_calls, log_accepted,
                   writerVars>>

\* buffer_[current_tail] = std::move(item);
LogWriteSlot(t) ==
    /\ log_pc[t] = "write"
    /\ log_buffer_' = [log_buffer_ EXCEPT ![log_frame[t].current_tail] = log_frame[t].item]
    /\ log_pc' = [log_pc EXCEPT ![t] = "publish"]
    /\ UNCHANGED <<log_head_, log_tail_, log_frame, log_calls, log_accepted, log_dropped,
                   writerVars>>

\* tail_.store(next_tail, release); return true;
LogPublish(t) ==
    /\ log_pc[t] = "publish"
    /\ log_tail_' = log_frame[t].next_tail
    /\ log_pc' = [log_pc EXCEPT ![t] = "idle"]
    /\ log_accepted' = Append(log_accepted, log_frame[t].item)
    /\ UNCHANGED <<log_head_, log_buffer_, log_frame, log_calls, log_dropped, writerVars>>

logProducerVars == <<log_tail_, log_buffer_, log_pc, log_frame, log_calls, log_accepted,
                     log_dropped>>

\* writerThread: auto msg = message_queue_.pop();
\* current_head = head_.load(relaxed); if (current_head == tail_.load(acquire)) return nullopt
WriterCheckEmpty ==
    /\ w_pc = "idle"
    /\ w_head' = log_head_
    /\ w_pc' = IF QueueEmpty(log_head_, log_tail_) THEN "idle" ELSE "read"
    /\ UNCHANGED <<log_head_, w_item, log_written, logProducerVars>>

\* T item = std::move(buffer_[current_head]);
WriterReadSlot ==
    /\ w_pc = "read"
    /\ w_item' = log_buffer_[w_head]
    /\ w_pc' = "publish"
    /\ UNCHANGED <<log_head_, w_head, log_written, logProducerVars>>

\* head_.store((current_head + 1) & (Size - 1), release); return item;
\* if (msg.has_value()) log_file_ << ... << msg->message << std::endl
WriterPublish ==
    /\ w_pc = "publish"
    /\ log_head_' = NextIndex(w_head)
    /\ log_written' = Append(log_written, w_item)
    /\ w_pc' = "idle"
    /\ UNCHANGED <<w_head, w_item, logProducerVars>>

(***************************************************************************)
(* ExchangeGateway: sendOrder, connect/disconnect and the processing thread *)
(***************************************************************************)

MaxSends == 3
MaxConnects == 2

VARIABLES
    connected_,     \* ExchangeGateway::connected_
    running_,       \* ExchangeGateway::running_
    order_queue_,   \* ExchangeGateway::order_queue_ (head_, tail_, buffer_)
    orders_sent_,   \* ExchangeGateway::orders_sent_
    g_pc,           \* where the thread that calls connect and disconnect is
    s_pc,           \* where the thread that calls sendOrder is
    s_request,      \* the request of the running sendOrder
    t_pc,           \* where the processing thread is
    gw_sent,        \* history: the requests for which sendOrder returned true
    gw_processed,   \* history: the requests passed to simulateExecution
    gw_sends,       \* history: number of sendOrder calls started
    gw_connects     \* history: number of connect calls that started a thread

gatewayVars == <<connected_, running_, order_queue_, orders_sent_, g_pc, s_pc, s_request,
                 t_pc, gw_sent, gw_processed, gw_sends, gw_connects>>

\* LockFreeQueue::push on a queue value: the queue after it, and its result
QueuePush(q, request) ==
    LET next == NextIndex(q.tail_)
    IN  IF QueueFull(next, q.head_)
        THEN [ok |-> FALSE, queue |-> q]
        ELSE [ok |-> TRUE,
              queue |-> [q EXCEPT !.buffer_[q.tail_] = request, !.tail_ = next]]

\* LockFreeQueue::empty
QueueIsEmpty(q) == q.head_ = q.tail_

\* LockFreeQueue::pop on a non-empty queue value: the item and the queue after it
QueuePop(q) ==
    [item |-> q.buffer_[q.head_], queue |-> [q EXCEPT !.head_ = NextIndex(q.head_)]]

\* ExchangeGateway(order_manager): not connected, no thread, empty queue
GatewayInit ==
    /\ connected_ = FALSE
    /\ running_ = FALSE
    /\ order_queue_ = [head_ |-> 0, tail_ |-> 0, buffer_ |-> [i \in 0 .. Size - 1 |-> 0]]
    /\ orders_sent_ = 0
    /\ g_pc = "idle"
    /\ s_pc = "idle"
    /\ s_request = 0
    /\ t_pc = "off"
    /\ gw_sent = <<>>
    /\ gw_processed = <<>>
    /\ gw_sends = 0
    /\ gw_connects = 0

senderVars == <<s_pc, s_request, gw_sends>>

\* connect(): if (connected_.exchange(true)) return;
ConnectExchange ==
    /\ g_pc = "idle"
    /\ gw_connects < MaxConnects
    /\ connected_' = TRUE
    /\ IF connected_
       THEN g_pc' = "idle" /\ gw_connects' = gw_connects
       ELSE g_pc' = "start" /\ gw_connects' = gw_connects + 1
    /\ UNCHANGED <<running_, order_queue_, orders_sent_, t_pc, gw_sent, gw_processed,
                   senderVars>>

\* running_ = true; processing_thread_ = std::thread(&processingThread, this);
ConnectStart ==
    /\ g_pc = "start"
    /\ running_' = TRUE
    /\ t_pc' = "loop"
    /\ g_pc' = "idle"
    /\ UNCHANGED <<connected_, order_queue_, orders_sent_, gw_sent, gw_processed,
                   gw_connects, senderVars>>

\* disconnect(): if (!connected_.exchange(false)) return;
DisconnectExchange ==
    /\ g_pc = "idle"
    /\ connected_' = FALSE
    /\ g_pc' = IF connected_ THEN "stop" ELSE "idle"
    /\ UNCHANGED <<running_, order_queue_, orders_sent_, t_pc, gw_sent, gw_processed,
                   gw_connects, senderVars>>

\* running_ = false;
DisconnectStop ==
    /\ g_pc = "stop"
    /\ running_' = FALSE
    /\ g_pc' = "join"
    /\ UNCHANGED <<connected_, order_queue_, orders_sent_, t_pc, gw_sent, gw_processed,
                   gw_connects, senderVars>>

\* if (processing_thread_.joinable()) processing_thread_.join();
DisconnectJoin ==
    /\ g_pc = "join"
    /\ t_pc = "exited"
    /\ t_pc' = "off"
    /\ g_pc' = "idle"
    /\ UNCHANGED <<connected_, running_, order_queue_, orders_sent_, gw_sent, gw_processed,
                   gw_connects, senderVars>>

\* sendOrder(request): if (!connected_) { LOG_ERROR(...); return false; }
SendCheckConnected ==
    /\ s_pc = "idle"
    /\ gw_sends < MaxSends
    /\ gw_sends' = gw_sends + 1
    /\ s_request' = gw_sends + 1
    /\ s_pc' = IF connected_ THEN "push" ELSE "idle"
    /\ UNCHANGED <<connected_, running_, order_queue_, orders_sent_, g_pc, t_pc, gw_sent,
                   gw_processed, gw_connects>>

\* bool success = order_queue_.push(request); if (success) orders_sent_++; return success;
SendPush ==
    /\ s_pc = "push"
    /\ \E r \in {QueuePush(order_queue_, s_request)} :
          /\ order_queue_' = r.queue
          /\ orders_sent_' = IF r.ok THEN orders_sent_ + 1 ELSE orders_sent_
          /\ gw_sent' = IF r.ok THEN Append(gw_sent, s_request) ELSE gw_sent
    /\ s_pc' = "idle"
    /\ UNCHANGED <<connected_, running_, g_pc, t_pc, gw_processed, gw_connects, s_request,
                   gw_sends>>

\* processingThread: while (running_ || ...)
ThreadTestRunning ==
    /\ t_pc = "loop"
    /\ t_pc' = IF running_ THEN "pop" ELSE "empty"
    /\ UNCHANGED <<connected_, running_, order_queue_, orders_sent_, g_pc, gw_sent,
                   gw_processed, gw_connects, senderVars>>

\* while (... || !order_queue_.empty()); the thread returns when the test fails
ThreadTestEmpty ==
    /\ t_pc = "empty"
    /\ t_pc' = IF QueueIsEmpty(order_queue_) THEN "exited" ELSE "pop"
    /\ UNCHANGED <<connected_, running_, order_queue_, orders_sent_, g_pc, gw_sent,
                   gw_processed, gw_connects, senderVars>>

\* auto order_opt = order_queue_.pop();
\* if (order_opt.has_value()) simulateExecution(request); else sleep_for(10us)
ThreadPop ==
    /\ t_pc = "pop"
    /\ IF QueueIsEmpty(order_queue_)
       THEN UNCHANGED <<order_queue_, gw_processed>>
       ELSE \E r \in {QueuePop(order_queue_)} :
               /\ order_queue_' = r.queue
               /\ gw_processed' = Append(gw_processed, r.item)
    /\ t_pc' = "loop"
    /\ UNCHANGED <<connected_, running_, orders_sent_, g_pc, gw_sent, gw_connects,
                   senderVars>>

(***************************************************************************)
(* OrderBook-Engine: matchOrder on the global bids and asks maps            *)
(***************************************************************************)

MaxEngineCalls == 4

\* prices (doubles in the source; only compared, never computed with)
EnginePrices == {99, 100}
EngineQtys == {1, 2, 3}
EngineSides == {"BUY", "SELL"}

VARIABLES
    bids,           \* map<double, queue<Order>, greater<double>>; <<>> for an absent key
    asks,           \* map<double, queue<Order>, less<double>>; <<>> for an absent key
    printed,        \* history: the "Trade:" lines printed, with the resting order each one filled
    engine_calls    \* history: number of matchOrder calls made

engineVars == <<bids, asks, printed, engine_calls>>

\* the maps are empty when main starts
EngineInit ==
    /\ bids = [p \in EnginePrices |-> <<>>]
    /\ asks = [p \in EnginePrices |-> <<>>]
    /\ printed = <<>>
    /\ engine_calls = 0

\* the keys present in a map
Keys(m) == {p \in DOMAIN m : m[p] # <<>>}

\* asks.begin()->first, bids.begin()->first
LowestKey(m) == CHOOSE p \in Keys(m) : \A r \in Keys(m) : p <= r
HighestKey(m) == CHOOSE p \in Keys(m) : \A r \in Keys(m) : p >= r

\* one pass of the while loop on the level at key p of the opposite map:
\* front() and pop(), the trade, and the push of what is left of the resting
\* order; an emptied queue's key is erased (<<>>)
EngineFill(m, p, o, line) ==
    LET q == m[p]
        resting == Head(q)
        traded == Min(o.qty, resting.qty)
        rest == Tail(q)
        left == [resting EXCEPT !.qty = @ - traded]
    IN  [map |-> [m EXCEPT ![p] = IF left.qty > 0 THEN Append(rest, left) ELSE rest],
         o |-> [o EXCEPT !.qty = @ - traded],
         line |-> [side |-> line, traded |-> traded, price |-> resting.price,
                   resting |-> resting.id, call |-> o.id]]

\* while(o.qty>0 && !asks.empty() && asks.begin()->first<=o.price) { ... }
RECURSIVE BuyLoop(_, _, _)
BuyLoop(m, o, out) ==
    IF o.qty > 0 /\ Keys(m) # {} /\ LowestKey(m) <= o.price
    THEN LET f == EngineFill(m, LowestKey(m), o, "BUY")
         IN  BuyLoop(f.map, f.o, Append(out, f.line))
    ELSE [map |-> m, o |-> o, out |-> out]

\* while(o.qty>0 && !bids.empty() && bids.begin()->first>=o.price) { ... }
RECURSIVE SellLoop(_, _, _)
SellLoop(m, o, out) ==
    IF o.qty > 0 /\ Keys(m) # {} /\ HighestKey(m) >= o.price
    THEN LET f == EngineFill(m, HighestKey(m), o, "SELL")
         IN  SellLoop(f.map, f.o, Append(out, f.line))
    ELSE [map |-> m, o |-> o, out |-> out]

\* matchOrder(o); the id is the call's number, as in main
MatchOrder ==
    /\ engine_calls < MaxEngineCalls
    /\ \E side \in EngineSides, price \in EnginePrices, qty \in EngineQtys :
          LET o == [id |-> engine_calls + 1, side |-> side, price |-> price, qty |-> qty]
          IN  IF side = "BUY"
              THEN \E r \in {BuyLoop(asks, o, <<>>)} :
                      /\ asks' = r.map
                      /\ bids' = IF r.o.qty > 0
                                 THEN [bids EXCEPT ![price] = Append(@, r.o)]
                                 ELSE bids
                      /\ printed' = printed \o r.out
              ELSE \E r \in {SellLoop(bids, o, <<>>)} :
                      /\ bids' = r.map
                      /\ asks' = IF r.o.qty > 0
                                 THEN [asks EXCEPT ![price] = Append(@, r.o)]
                                 ELSE asks
                      /\ printed' = printed \o r.out
    /\ engine_calls' = engine_calls + 1

(***************************************************************************)
(* Interleaving: two OrderBooks are fed the same calls, except that two    *)
(* consecutive calls on disjoint price levels come in opposite orders.     *)
(***************************************************************************)

MaxPrefixCalls == 2

\* the ids of the two swapped calls' new orders, besides OrderIds
SwapIds == {3, 4}

VARIABLES
    interleave      \* the two books, the two swapped events and what they emitted

interleaveVars == <<interleave>>

\* an addOrder, cancelOrder or modifyOrder call as a value
AddEvents(ids) ==
    {[op |-> "add", order_id |-> id, price |-> p, quantity |-> q, side |-> s] :
        id \in ids, p \in Prices, q \in Qtys, s \in Sides}

CancelEvents(ids) ==
    {[op |-> "cancel", order_id |-> id, price |-> 0, quantity |-> 0, side |-> BUY] :
        id \in ids}

ModifyEvents(ids) ==
    {[op |-> "modify", order_id |-> id, price |-> 0, quantity |-> q, side |-> BUY] :
        id \in ids, q \in ModQtys}

\* the call made on a book: the book it leaves, ready for the next call, and
\* the trades executeTrade emitted during it
ApplyEvent(b, ev) ==
    CHOOSE x \in
        {[book |-> AfterCall(r.book), trades |-> r.book.trades] :
            r \in {CASE ev.op = "add" ->
                          addOrder(b, [order_id |-> ev.order_id, price |-> ev.price,
                                       quantity |-> ev.quantity, side |-> ev.side,
                                       timestamp |-> 0])
                     [] ev.op = "cancel" -> cancelOrder(b, ev.order_id)
                     [] OTHER -> modifyOrder(b, ev.order_id, ev.quantity)}} : TRUE

\* addOrder needs a cell from the pool
Applicable(b, ev) == ev.op = "add" => CanAllocate(b.order_pool_)

\* the price levels a call works on in a book: for an addOrder its own price
\* and the prices of the resting orders of the other side that it crosses;
\* for a cancelOrder or modifyOrder the price of the order it names
EventLevels(b, ev) ==
    IF ev.op = "add"
    THEN {ev.price} \cup
         {b.nodes[c].order.price : c \in
            {d \in Cells : /\ b.nodes[d].live
                           /\ b.nodes[d].order.side # ev.side
                           /\ IF ev.side = BUY
                              THEN b.nodes[d].order.price <= ev.price
                              ELSE b.nodes[d].order.price >= ev.price}}
    ELSE IF b.order_map_[ev.order_id] = nullptr THEN {}
         ELSE {b.nodes[b.order_map_[ev.order_id]].order.price}

\* two calls whose price levels are disjoint, whichever of the two goes
\* first: b is the book before both, after1 the book e1 leaves when it goes
\* first, after2 the book e2 leaves when it goes first
DisjointLevels(b, e1, e2, after1, after2) ==
    (EventLevels(b, e1) \cup EventLevels(after2, e1))
        \cap (EventLevels(b, e2) \cup EventLevels(after1, e2)) = {}

\* two identical fresh books (the directory has room for the swapped orders);
\* until the first call the record leaves the two books out and
\* InterleaveBook supplies them
InterleaveInit ==
    interleave = [stage |-> "common", calls |-> 0, events |-> <<>>,
                  emitted |-> <<<<>>, <<>>>>]

\* the k-th of the two books
InterleaveBook(k) ==
    IF interleave.stage = "common" /\ interleave.calls = 0
    THEN [FreshBook EXCEPT !.order_map_ = [i \in OrderIds \cup SwapIds |-> nullptr]]
    ELSE IF k = 1 THEN interleave.first ELSE interleave.second

\* the same call is made on both books, before the two swapped calls
InterleaveCommon ==
    /\ interleave.stage = "common"
    /\ interleave.calls < MaxPrefixCalls
    /\ \E ev \in AddEvents(OrderIds) \cup CancelEvents(OrderIds) \cup ModifyEvents(OrderIds) :
          /\ Applicable(InterleaveBook(1), ev)
          /\ Applicable(InterleaveBook(2), ev)
          /\ \E r1 \in {ApplyEvent(InterleaveBook(1), ev)},
                r2 \in {ApplyEvent(InterleaveBook(2), ev)} :
                interleave' = [first |-> r1.book, second |-> r2.book,
                               stage |-> "common", calls |-> interleave.calls + 1,
                               events |-> <<>>, emitted |-> <<<<>>, <<>>>>]

\* two calls on disjoint price levels are chosen: the first book gets e1 and
\* the second book e2; emitted[k] holds, for book k, the trades of e1 and the
\* trades of e2
InterleaveFirst ==
    /\ interleave.stage = "common"
    /\ \E e1 \in AddEvents({3}) \cup CancelEvents(OrderIds) \cup ModifyEvents(OrderIds),
          e2 \in AddEvents({4}) \cup CancelEvents(OrderIds) \cup ModifyEvents(OrderIds) :
          /\ e1.order_id # e2.order_id
          /\ Applicable(InterleaveBook(1), e1)
          /\ Applicable(InterleaveBook(2), e2)
          /\ \E b \in {InterleaveBook(1)},
                r1 \in {ApplyEvent(InterleaveBook(1), e1)},
                r2 \in {ApplyEvent(InterleaveBook(2), e2)} :
                /\ DisjointLevels(b, e1, e2, r1.book, r2.book)
                /\ interleave' = [first |-> r1.book, second |-> r2.book,
                                  stage |-> "half", calls |-> interleave.calls,
                                  events |-> <<e1, e2>>,
                                  emitted |-> <<<<r1.trades, <<>>>>, <<<<>>, r2.trades>>>>]

\* the other call of the two: the first book gets e2 and the second book e1
InterleaveSecond ==
    /\ interleave.stage = "half"
    /\ Applicable(interleave.first, interleave.events[2])
    /\ Applicable(interleave.second, interleave.events[1])
    /\ \E r1 \in {ApplyEvent(interleave.first, interleave.events[2])},
          r2 \in {ApplyEvent(interleave.second, interleave.events[1])} :
          interleave' = [interleave EXCEPT
                            !.first = r1.book,
                            !.second = r2.book,
                            !.stage = "swapped",
                            !.emitted = <<<<@[1][1], r1.trades>>, <<r2.trades, @[2][2]>>>>]

(***************************************************************************)
(* cpp-interview-solutions/02-hft-datastructures: SPSCQueue<T, Size>       *)
(* One producer thread calls try_enqueue, one consumer thread try_dequeue. *)
(* cached_head_ is touched by the producer only, cached_tail_ by the       *)
(* consumer only; the calls are split at their accesses to head_, tail_    *)
(* and buffer_.                                                            *)
(***************************************************************************)

\* the template parameter Size
SpscSize == 5

MaxEnqueues == SpscSize + 2

VARIABLES
    spsc_head_,     \* SPSCQueue::head_
    spsc_tail_,     \* SPSCQueue::tail_
    spsc_buffer_,   \* SPSCQueue::buffer_
    cached_head_,   \* SPSCQueue::cached_head_
    cached_tail_,   \* SPSCQueue::cached_tail_
    e_pc,           \* producer: "idle", "reload", "write", "publish"
    e_frame,        \* try_enqueue: item, current_tail, next_tail
    e_ret,          \* history: "none", or what the last try_enqueue returned
    d_pc,           \* consumer: "idle", "reload", "read", "publish"
    d_frame,        \* try_dequeue: current_head, item
    d_ret,          \* history: "none", or what the last try_dequeue returned
    enqueued,       \* history: the items of the successful try_enqueue calls
    dequeued,       \* history: the items returned by try_dequeue
    enqueues        \* history: number of try_enqueue calls started

spscVars == <<spsc_head_, spsc_tail_, spsc_buffer_, cached_head_, cached_tail_,
              e_pc, e_frame, e_ret, d_pc, d_frame, d_ret, enqueued, dequeued, enqueues>>

SpscInit ==
    /\ spsc_head_ = 0
    /\ spsc_tail_ = 0
    /\ spsc_buffer_ = [i \in 0 .. SpscSize - 1 |-> 0]
    /\ cached_head_ = 0
    /\ cached_tail_ = 0
    /\ e_pc = "idle"
    /\ e_frame = [item |-> 0, current_tail |-> 0, next_tail |-> 0]
    /\ e_ret = "none"
    /\ d_pc = "idle"
    /\ d_frame = [current_head |-> 0, item |-> 0]
    /\ d_ret = "none"
    /\ enqueued = <<>>
    /\ dequeued = <<>>
    /\ enqueues = 0

spscProducerVars == <<cached_head_, e_pc, e_frame, e_ret, enqueued, enqueues>>
spscConsumerVars == <<cached_tail_, d_pc, d_frame, d_ret, dequeued>>

\* try_enqueue(item) is called (the k-th call enqueues the item k):
\* current_tail = tail_.load(relaxed); next_tail = (current_tail + 1) % Size;
\* if (next_tail == cached_head_) ...
EnqLoadTail ==
    /\ e_pc = "idle"
    /\ enqueues < MaxEnqueues
    /\ enqueues' = enqueues + 1
    /\ e_frame' = [item |-> enqueues + 1, current_tail |-> spsc_tail_,
                   next_tail |-> (spsc_tail_ + 1) % SpscSize]
    /\ e_ret' = "none"
    /\ e_pc' = IF (spsc_tail_ + 1) % SpscSize = cached_head_ THEN "reload" ELSE "write"
    /\ UNCHANGED <<spsc_head_, spsc_tail_, spsc_buffer_, cached_head_, enqueued,
                   spscConsumerVars>>

\* a try_enqueue that trusts the cached head: if (next_tail == cached_head_) return false;
EnqReloadHead_trustCache ==
    /\ e_pc = "reload"
    /\ cached_head_' = cached_head_
    /\ e_pc' = "idle"
    /\ e_ret' = "full"
    /\ UNCHANGED <<spsc_head_, spsc_tail_, spsc_buffer_, e_frame, enqueued, enqueues,
                   spscConsumerVars>>

\* cached_head_ = head_.load(acquire); if (next_tail == cached_head_) return false;
EnqReloadHead ==
    /\ e_pc = "reload"
    /\ cached_head_' = spsc_head_
    /\ IF e_frame.next_tail = spsc_head_
       THEN e_pc' = "idle" /\ e_ret' = "full"
       ELSE e_pc' = "write" /\ e_ret' = e_ret
    /\ UNCHANGED <<spsc_head_, spsc_tail_, spsc_buffer_, e_frame, enqueued, enqueues,
                   spscConsumerVars>>

\* buffer_[current_tail].data = item;
EnqWriteSlot ==
    /\ e_pc = "write"
    /\ spsc_buffer_' = [spsc_buffer_ EXCEPT ![e_frame.current_tail] = e_frame.item]
    /\ e_pc' = "publish"
    /\ UNCHANGED <<spsc_head_, spsc_tail_, cached_head_, e_frame, e_ret, enqueued,
                   enqueues, spscConsumerVars>>

\* tail_.store(next_tail, release); return true;
EnqPublish ==
    /\ e_pc = "publish"
    /\ spsc_tail_' = e_frame.next_tail
    /\ e_pc' = "idle"
    /\ e_ret' = "ok"
    /\ enqueued' = Append(enqueued, e_frame.item)
    /\ UNCHANGED <<spsc_head_, spsc_buffer_, cached_head_, e_frame, enqueues,
                   spscConsumerVars>>

\* try_dequeue() is called: current_head = head_.load(relaxed);
\* if (current_head == cached_tail_) ...
DeqLoadHead ==
    /\ d_pc = "idle"
    /\ d_frame' = [d_frame EXCEPT !.current_head = spsc_head_]
    /\ d_ret' = "none"
    /\ d_pc' = IF spsc_head_ = cached_tail_ THEN "reload" ELSE "read"
    /\ UNCHANGED <<spsc_head_, spsc_tail_, spsc_buffer_, cached_tail_, dequeued,
                   spscProducerVars>>

\* cached_tail_ = tail_.load(acquire); if (current_head == cached_tail_) return nullopt;
DeqReloadTail ==
    /\ d_pc = "reload"
    /\ cached_tail_' = spsc_tail_
    /\ IF d_frame.current_head = spsc_tail_
       THEN d_pc' = "idle" /\ d_ret' = "nullopt"
       ELSE d_pc' = "read" /\ d_ret' = d_ret
    /\ UNCHANGED <<spsc_head_, spsc_tail_, spsc_buffer_, d_frame, dequeued,
                   spscProducerVars>>

\* T item = buffer_[current_head].data;
DeqReadSlot ==
    /\ d_pc = "read"
    /\ d_frame' = [d_frame EXCEPT !.item = spsc_buffer_[d_frame.current_head]]
    /\ d_pc' = "publish"
    /\ UNCHANGED <<spsc_head_, spsc_tail_, spsc_buffer_, cached_tail_, d_ret, dequeued,
                   spscProducerVars>>

\* head_.store((current_head + 1) % Size, release); return item;
DeqPublish ==
    /\ d_pc = "publish"
    /\ spsc_head_' = (d_frame.current_head + 1) % SpscSize
    /\ d_pc' = "idle"
    /\ d_ret' = "value"
    /\ dequeued' = Append(dequeued, d_frame.item)
    /\ UNCHANGED <<spsc_tail_, spsc_buffer_, cached_tail_, d_frame, spscProducerVars>>

(***************************************************************************)
(* The statistics and the trade callback of the HFT-System OrderBook: the  *)
(* order book with setTradeCallback, and a record of what executeTrade was *)
(* called for and of what it passed to the callback.                       *)
(***************************************************************************)

MaxStatsCalls == 3

VARIABLE
    stats           \* [trade_callback_: a callback is installed;
                    \*  executed, volume: history, the executeTrade calls so far
                    \*  and the sum of their quantities;
                    \*  installed, invoked: history, whether a callback was
                    \*  installed during the last call of the book, and the
                    \*  trades passed to it]

statsVars == <<stats>>

StatsInit ==
    stats = [trade_callback_ |-> FALSE, executed |-> 0, volume |-> 0,
             installed |-> FALSE, invoked |-> <<>>]

\* executeTrade: if (trade_callback_) trade_callback_(trade); for the trades of a call
Invoke(trade_callback_, list) == IF trade_callback_ THEN list ELSE <<>>

\* the quantity executeTrade was called with for a match
RECURSIVE MatchedQty(_)
MatchedQty(list) ==
    IF list = <<>> THEN 0
    ELSE Min(Head(list).aggressive.quantity, Head(list).passive.quantity)
         + MatchedQty(Tail(list))

\* setTradeCallback(cb), cb a callable or an empty std::function
SetTradeCallback ==
    /\ \E cb \in BOOLEAN :
          /\ cb # stats.trade_callback_
          /\ stats' = [stats EXCEPT !.trade_callback_ = cb]
    /\ UNCHANGED bookVars

\* what a call of the book adds to the record
Recorded ==
    /\ stats' = [stats EXCEPT !.executed = @ + Len(matches'),
                              !.volume = @ + MatchedQty(matches'),
                              !.installed = stats.trade_callback_,
                              !.invoked = Invoke(stats.trade_callback_, trades')]
    /\ UNCHANGED round_trip

StatsAddOrder == ncalls < MaxStatsCalls /\ AddOrder /\ Recorded
StatsCancelOrder == ncalls < MaxStatsCalls /\ CancelOrder /\ Recorded
StatsModifyOrder == ncalls < MaxStatsCalls /\ ModifyOrder /\ Recorded

(***************************************************************************)
(* oms::OrderManager and the calls the ExchangeGateway makes on it.        *)
(* orders_ is a sequence, the order with id k at position k.  A request    *)
(* handed to the gateway is a copy; the processing thread runs             *)
(* simulateExecution on it: updateOrderStatus(ACKNOWLEDGED), then, or not, *)
(* addFill with 50..100 percent of the quantity of the copy.  Each         *)
(* OrderManager call is one step.                                          *)
(***************************************************************************)

MaxOmsCalls == 3
OmsQtys == {2, 4}
OmsPrices == {100, 101}
OmsStatuses == {"PENDING", "SENT", "ACKNOWLEDGED", "PARTIALLY_FILLED", "FILLED",
                "CANCELLED", "REJECTED"}
Terminal == {"FILLED", "CANCELLED", "REJECTED"}

VARIABLES
    oms_orders_,    \* OrderManager::orders_
    oms_request,    \* the request simulateExecution is working on, or <<>>
    oms_calls       \* history: number of calls made by the client

omsVars == <<oms_orders_, oms_request, oms_calls>>

OmsInit ==
    /\ oms_orders_ = <<>>
    /\ oms_request = <<>>
    /\ oms_calls = 0

\* OrderManager::updateOrderStatus
updateOrderStatus(orders, client_order_id, status) ==
    IF client_order_id \notin DOMAIN orders THEN orders
    ELSE [orders EXCEPT ![client_order_id].status = status]

\* OrderManager::addFill
addFill(orders, client_order_id, fill) ==
    IF client_order_id \notin DOMAIN orders THEN orders
    ELSE LET state == orders[client_order_id]
             total_filled_value == state.average_fill_price * state.filled_quantity
                                   + fill.price * fill.quantity
             filled == state.filled_quantity + fill.quantity
         IN  [orders EXCEPT
                ![client_order_id].filled_quantity = filled,
                ![client_order_id].average_fill_price = total_filled_value \div filled,
                ![client_order_id].status =
                    IF filled >= state.quantity THEN "FILLED" ELSE "PARTIALLY_FILLED"]

\* OrderManager::submitOrder
OmsSubmitOrder ==
    /\ oms_calls < MaxOmsCalls
    /\ \E q \in OmsQtys, p \in OmsPrices :
          oms_orders_' = Append(oms_orders_,
                                [quantity |-> q, price |-> p, status |-> "PENDING",
                                 filled_quantity |-> 0, average_fill_price |-> 0])
    /\ oms_calls' = oms_calls + 1
    /\ UNCHANGED oms_request

\* OrderManager::cancelOrder
OmsCancelOrder ==
    /\ oms_calls < MaxOmsCalls
    /\ \E id \in 1 .. Len(oms_orders_) + 1 :
          oms_orders_' =
              IF id \notin DOMAIN oms_orders_ THEN oms_orders_
              ELSE IF oms_orders_[id].status \in Terminal THEN oms_orders_
              ELSE [oms_orders_ EXCEPT ![id].status = "CANCELLED"]
    /\ oms_calls' = oms_calls + 1
    /\ UNCHANGED oms_request

\* OrderManager::modifyOrder, also reached through ExchangeGateway::modifyOrder
OmsModifyOrder ==
    /\ oms_calls < MaxOmsCalls
    /\ \E id \in 1 .. Len(oms_orders_) + 1, q \in OmsQtys, p \in OmsPrices :
          oms_orders_' =
              IF id \notin DOMAIN oms_orders_ THEN oms_orders_
              ELSE IF oms_orders_[id].status \in Terminal THEN oms_orders_
              ELSE [oms_orders_ EXCEPT ![id].quantity = q, ![id].price = p]
    /\ oms_calls' = oms_calls + 1
    /\ UNCHANGED oms_request

\* ExchangeGateway::cancelOrder on a connected gateway
GatewayCancelOrder ==
    /\ oms_calls < MaxOmsCalls
    /\ \E id \in 1 .. Len(oms_orders_) + 1 :
          oms_orders_' = updateOrderStatus(oms_orders_, id, "CANCELLED")
    /\ oms_calls' = oms_calls + 1
    /\ UNCHANGED oms_request

\* ExchangeGateway::sendOrder of a copy of the request of an order, and the
\* pop of it by the processing thread
GatewaySendOrder ==
    /\ oms_calls < MaxOmsCalls
    /\ oms_request = <<>>
    /\ \E id \in DOMAIN oms_orders_ :
          oms_request' = [client_order_id |-> id, price |-> oms_orders_[id].price,
                          quantity |-> oms_orders_[id].quantity, acknowledged |-> FALSE]
    /\ oms_calls' = oms_calls + 1
    /\ UNCHANGED oms_orders_

\* simulateExecution: updateOrderStatus(request.client_order_id, ACKNOWLEDGED)
SimulateAcknowledge ==
    /\ oms_request # <<>>
    /\ ~oms_request.acknowledged
    /\ oms_orders_' = updateOrderStatus(oms_orders_, oms_request.client_order_id,
                                        "ACKNOWLEDGED")
    /\ oms_request' = [oms_request EXCEPT !.acknowledged = TRUE]
    /\ UNCHANGED oms_calls

\* simulateExecution: execution_dist(gen) < 70, addFill of
\* request.quantity * fill_ratio / 100 with fill_ratio in 50 .. 100
SimulateFill ==
    /\ oms_request # <<>>
    /\ oms_request.acknowledged
    /\ \E fill_ratio \in {50, 75, 100} :
          oms_orders_' = addFill(oms_orders_, oms_request.client_order_id,
                                 [price |-> oms_request.price,
                                  quantity |-> (oms_request.quantity * fill_ratio) \div 100])
    /\ oms_request' = <<>>
    /\ UNCHANGED oms_calls

\* simulateExecution: execution_dist(gen) >= 70, no fill
SimulateNoFill ==
    /\ oms_request # <<>>
    /\ oms_request.acknowledged
    /\ oms_request' = <<>>
    /\ UNCHANGED <<oms_orders_, oms_calls>>

(***************************************************************************)
(* ThreadPool (cpp-interview-solutions/05-concurrency/thread_pool.cpp)     *)
(*                                                                         *)
(* The workers, the thread that submits and the thread that shuts the pool *)
(* down, one step per statement that reads or writes shared state.         *)
(* condition_.wait(lock, pred) is  while (!pred()) wait(lock) : the        *)
(* predicate is evaluated with the mutex held, and wait(lock) releases the *)
(* mutex and blocks in one step.  active_tasks_ is left out: ++ and --     *)
(* around task() cancel and only wait() reads it.                          *)
(***************************************************************************)
NumThreads == 2
MaxTasks == 2

Workers == 1..NumThreads

VARIABLES
    tasks_,         \* std::queue of submitted tasks (their numbers)
    stop_,          \* std::atomic<bool>
    mutex_,         \* 0 when free, else the thread that holds it
    worker_pc,      \* where each worker is in its loop
    worker_task,    \* the task a worker has moved out of the queue, 0 if none
    submit_pc,      \* "idle", or "notify" between the unlock and notify_one
    shutdown_pc,    \* "idle", "notify", "join", "done"
    joined,         \* how many workers shutdown() has joined
    submitted,      \* history: number of tasks submitted
    tasks_run       \* history: the tasks that have been executed

threadPoolVars == <<tasks_, stop_, mutex_, worker_pc, worker_task, submit_pc,
                    shutdown_pc, joined, submitted, tasks_run>>

\* ThreadPool(num_threads): stop_(false), empty queue, every worker at the
\* top of its loop
ThreadPoolInit ==
    /\ tasks_ = <<>>
    /\ stop_ = FALSE
    /\ mutex_ = 0
    /\ worker_pc = [i \in Workers |-> "lock"]
    /\ worker_task = [i \in Workers |-> 0]
    /\ submit_pc = "idle"
    /\ shutdown_pc = "idle"
    /\ joined = 0
    /\ submitted = 0
    /\ tasks_run = {}

\* std::unique_lock<std::mutex> lock(mutex_), and the re-acquisition of the
\* mutex by a worker that was woken inside wait(lock)
WorkerLock(i) ==
    /\ worker_pc[i] \in {"lock", "woken"}
    /\ mutex_ = 0
    /\ mutex_' = i
    /\ worker_pc' = [worker_pc EXCEPT ![i] = "predicate"]
    /\ UNCHANGED <<tasks_, stop_, worker_task, submit_pc, shutdown_pc, joined,
                   submitted, tasks_run>>

\* return stop_.load() || !tasks_.empty();
WorkerPredicate(i) ==
    /\ worker_pc[i] = "predicate"
    /\ worker_pc' = [worker_pc EXCEPT
                        ![i] = IF stop_ \/ tasks_ # <<>> THEN "test" ELSE "block"]
    /\ UNCHANGED <<tasks_, stop_, mutex_, worker_task, submit_pc, shutdown_pc,
                   joined, submitted, tasks_run>>

\* wait(lock): release the mutex and block until notified
WorkerBlock(i) ==
    /\ worker_pc[i] = "block"
    /\ mutex_' = 0
    /\ worker_pc' = [worker_pc EXCEPT ![i] = "waiting"]
    /\ UNCHANGED <<tasks_, stop_, worker_task, submit_pc, shutdown_pc, joined,
                   submitted, tasks_run>>

\* a condition variable may wake a waiter without a notification
SpuriousWakeup(i) ==
    /\ worker_pc[i] = "waiting"
    /\ worker_pc' = [worker_pc EXCEPT ![i] = "woken"]
    /\ UNCHANGED <<tasks_, stop_, mutex_, worker_task, submit_pc, shutdown_pc,
                   joined, submitted, tasks_run>>

\* if (stop_.load() && tasks_.empty()) break;
\* task = std::move(tasks_.front()); tasks_.pop();   } releases the mutex
WorkerTest(i) ==
    /\ worker_pc[i] = "test"
    /\ mutex_' = 0
    /\ IF stop_ /\ tasks_ = <<>>
       THEN /\ worker_pc' = [worker_pc EXCEPT ![i] = "stopped"]
            /\ UNCHANGED <<tasks_, worker_task>>
       ELSE /\ worker_pc' = [worker_pc EXCEPT ![i] = "run"]
            /\ worker_task' = [worker_task EXCEPT ![i] = Head(tasks_)]
            /\ tasks_' = Tail(tasks_)
    /\ UNCHANGED <<stop_, submit_pc, shutdown_pc, joined, submitted, tasks_run>>

\* ++active_tasks_; task(); --active_tasks_;
WorkerRun(i) ==
    /\ worker_pc[i] = "run"
    /\ tasks_run' = tasks_run \cup {worker_task[i]}
    /\ worker_task' = [worker_task EXCEPT ![i] = 0]
    /\ worker_pc' = [worker_pc EXCEPT ![i] = "lock"]
    /\ UNCHANGED <<tasks_, stop_, mutex_, submit_pc, shutdown_pc, joined, submitted>>

\* submit: lock; if (stop_.load()) throw; tasks_.emplace(...); unlock.
\* The thread that submits is the one that later calls shutdown().
SubmitPush ==
    /\ submit_pc = "idle"
    /\ shutdown_pc = "idle"
    /\ submitted < MaxTasks
    /\ mutex_ = 0
    /\ ~stop_
    /\ tasks_' = Append(tasks_, submitted + 1)
    /\ submitted' = submitted + 1
    /\ submit_pc' = "notify"
    /\ UNCHANGED <<stop_, mutex_, worker_pc, worker_task, shutdown_pc, joined,
                   tasks_run>>

\* condition_.notify_one(): wakes one of the workers that are waiting, if any
SubmitNotify ==
    /\ submit_pc = "notify"
    /\ submit_pc' = "idle"
    /\ IF \E i \in Workers : worker_pc[i] = "waiting"
       THEN \E i \in Workers :
                /\ worker_pc[i] = "waiting"
                /\ worker_pc' = [worker_pc EXCEPT ![i] = "woken"]
       ELSE UNCHANGED worker_pc
    /\ UNCHANGED <<tasks_, stop_, mutex_, worker_task, shutdown_pc, joined,
                   submitted, tasks_run>>

\* shutdown: if (!stop_.load()) { stop_.store(true);   -- mutex_ is not taken
ShutdownStore ==
    /\ shutdown_pc = "idle"
    /\ submit_pc = "idle"
    /\ ~stop_
    /\ stop_' = TRUE
    /\ shutdown_pc' = "notify"
    /\ UNCHANGED <<tasks_, mutex_, worker_pc, worker_task, submit_pc, joined,
                   submitted, tasks_run>>

\* condition_.notify_all(): wakes every worker that is waiting now
ShutdownNotifyAll ==
    /\ shutdown_pc = "notify"
    /\ worker_pc' = [i \in Workers |->
                        IF worker_pc[i] = "waiting" THEN "woken" ELSE worker_pc[i]]
    /\ shutdown_pc' = "join"
    /\ UNCHANGED <<tasks_, stop_, mutex_, worker_task, submit_pc, joined,
                   submitted, tasks_run>>

\* for (auto& worker : workers_) worker.join();   one worker after the other
ShutdownJoin ==
    /\ shutdown_pc = "join"
    /\ worker_pc[joined + 1] = "stopped"
    /\ joined' = joined + 1
    /\ shutdown_pc' = IF joined + 1 = NumThreads THEN "done" ELSE "join"
    /\ UNCHANGED <<tasks_, stop_, mutex_, worker_pc, worker_task, submit_pc,
                   submitted, tasks_run>>

(***************************************************************************)
(* Specifications                                                          *)
(***************************************************************************)

vars == <<bookVars, queueVars, poolVars, interviewVars, replayVars, loggerVars,
    gatewayVars, engineVars, interleaveVars, spscVars, statsVars, omsVars,
    threadPoolVars>>

\* what the steps of one component leave unchanged: the other components
notBook == <<queueVars, poolVars, interviewVars, replayVars, loggerVars, gatewayVars,
    engineVars, interleaveVars, spscVars, statsVars, omsVars, threadPoolVars>>
notQueue == <<bookVars, poolVars, interviewVars, replayVars, loggerVars, gatewayVars,
    engineVars, interleaveVars, spscVars, statsVars, omsVars, threadPoolVars>>
notPool == <<bookVars, queueVars, interviewVars, replayVars, loggerVars, gatewayVars,
    engineVars, interleaveVars, spscVars, statsVars, omsVars, threadPoolVars>>
notInterview == <<bookVars, queueVars, poolVars, replayVars, loggerVars, gatewayVars,
    engineVars, interleaveVars, spscVars, statsVars, omsVars, threadPoolVars>>
notReplay == <<bookVars, queueVars, poolVars, interviewVars, loggerVars, gatewayVars,
    engineVars, interleaveVars, spscVars, statsVars, omsVars, threadPoolVars>>
notLogger == <<bookVars, queueVars, poolVars, interviewVars, replayVars, gatewayVars,
    engineVars, interleaveVars, spscVars, statsVars, omsVars, threadPoolVars>>
notGateway == <<bookVars, queueVars, poolVars, interviewVars, replayVars, loggerVars,
    engineVars, interleaveVars, spscVars, statsVars, omsVars, threadPoolVars>>
notEngine == <<bookVars, queueVars, poolVars, interviewVars, replayVars, loggerVars,
    gatewayVars, interleaveVars, spscVars, statsVars, omsVars, threadPoolVars>>
notInterleave == <<bookVars, queueVars, poolVars, interviewVars, replayVars, loggerVars,
    gatewayVars, engineVars, spscVars, statsVars, omsVars, threadPoolVars>>
notSpsc == <<bookVars, queueVars, poolVars, interviewVars, replayVars, loggerVars,
    gatewayVars, engineVars, interleaveVars, statsVars, omsVars, threadPoolVars>>
notStats == <<bookVars, queueVars, poolVars, interviewVars, replayVars, loggerVars,
    gatewayVars, engineVars, interleaveVars, spscVars, omsVars, threadPoolVars>>
notOms == <<bookVars, queueVars, poolVars, interviewVars, replayVars, loggerVars,
    gatewayVars, engineVars, interleaveVars, spscVars, statsVars, threadPoolVars>>
notThreadPool == <<bookVars, queueVars, poolVars, interviewVars, replayVars, loggerVars,
    gatewayVars, engineVars, interleaveVars, spscVars, statsVars, omsVars>>

\* the order book, called by one thread
Init ==
    /\ BookInit /\ QueueInit /\ PoolInit /\ InterviewInit /\ ReplayInit
    /\ LoggerInit /\ GatewayInit /\ EngineInit /\ InterleaveInit /\ SpscInit
    /\ StatsInit /\ OmsInit /\ ThreadPoolInit

Next ==
    \/ AddOrder /\ UNCHANGED <<notBook, round_trip>>
    \/ CancelOrder /\ UNCHANGED <<notBook, round_trip>>
    \/ ModifyOrder /\ UNCHANGED <<notBook, round_trip>>

Spec == Init /\ [][Next]_vars

\* a LockFreeQueue with its producer thread and its consumer thread
NextQueue ==
    \/ PushLoadTail /\ UNCHANGED notQueue
    \/ PushCheckFull /\ UNCHANGED notQueue
    \/ PushWriteSlot /\ UNCHANGED notQueue
    \/ PushPublish /\ UNCHANGED notQueue
    \/ PopLoadHead /\ UNCHANGED notQueue
    \/ PopCheckEmpty /\ UNCHANGED notQueue
    \/ PopReadSlot /\ UNCHANGED notQueue
    \/ PopPublish /\ UNCHANGED notQueue

SpecQueue == Init /\ [][NextQueue]_vars

\* a MemoryPool and the client that allocates from it
NextPool ==
    \/ PoolAllocate /\ UNCHANGED notPool
    \/ PoolDeallocate /\ UNCHANGED notPool

SpecPool == Init /\ [][NextPool]_vars

\* the OrderBook of 02-hft-datastructures, called by one thread
NextInterview ==
    \/ InterviewAddOrder /\ UNCHANGED notInterview
    \/ InterviewCancelOrder /\ UNCHANGED notInterview
    \/ InterviewModifyOrder /\ UNCHANGED notInterview

SpecInterview == Init /\ [][NextInterview]_vars

\* two OrderBooks replaying one sequence of calls
NextReplay ==
    \/ ReplayAddOrder /\ UNCHANGED notReplay
    \/ ReplayCancelOrder /\ UNCHANGED notReplay
    \/ ReplayModifyOrder /\ UNCHANGED notReplay

SpecReplay == Init /\ [][NextReplay]_vars

\* the Logger with the threads that log and its writer thread
NextLogger ==
    \/ (\E t \in LogThreads : LogLoadTail(t)) /\ UNCHANGED notLogger
    \/ (\E t \in LogThreads : LogCheckFull(t)) /\ UNCHANGED notLogger
    \/ (\E t \in LogThreads : LogWriteSlot(t)) /\ UNCHANGED notLogger
    \/ (\E t \in LogThreads : LogPublish(t)) /\ UNCHANGED notLogger
    \/ WriterCheckEmpty /\ UNCHANGED notLogger
    \/ WriterReadSlot /\ UNCHANGED notLogger
    \/ WriterPublish /\ UNCHANGED notLogger

SpecLogger == Init /\ [][NextLogger]_vars

\* the ExchangeGateway: a thread that connects and disconnects, a thread that
\* sends orders, and the processing thread
NextGateway ==
    \/ ConnectExchange /\ UNCHANGED notGateway
    \/ ConnectStart /\ UNCHANGED notGateway
    \/ DisconnectExchange /\ UNCHANGED notGateway
    \/ DisconnectStop /\ UNCHANGED notGateway
    \/ DisconnectJoin /\ UNCHANGED notGateway
    \/ SendCheckConnected /\ UNCHANGED notGateway
    \/ SendPush /\ UNCHANGED notGateway
    \/ ThreadTestRunning /\ UNCHANGED notGateway
    \/ ThreadTestEmpty /\ UNCHANGED notGateway
    \/ ThreadPop /\ UNCHANGED notGateway

\* every thread that is inside a call or a loop keeps running; nobody is
\* obliged to start a new call
GatewayFairness ==
    /\ WF_vars((ThreadTestRunning \/ ThreadTestEmpty \/ ThreadPop) /\ UNCHANGED notGateway)
    /\ WF_vars(SendPush /\ UNCHANGED notGateway)
    /\ WF_vars((ConnectStart \/ DisconnectStop \/ DisconnectJoin) /\ UNCHANGED notGateway)

SpecGateway == Init /\ [][NextGateway]_vars /\ GatewayFairness

\* the OrderBook-Engine program: calls of matchOrder
NextEngine == MatchOrder /\ UNCHANGED notEngine

SpecEngine == Init /\ [][NextEngine]_vars

\* two order books fed the same calls but for two swapped ones
NextInterleave ==
    \/ InterleaveCommon /\ UNCHANGED notInterleave
    \/ InterleaveFirst /\ UNCHANGED notInterleave
    \/ InterleaveSecond /\ UNCHANGED notInterleave

SpecInterleave == Init /\ [][NextInterleave]_vars

\* an SPSCQueue with its producer thread and its consumer thread
NextSpsc ==
    \/ EnqLoadTail /\ UNCHANGED notSpsc
    \/ EnqReloadHead /\ UNCHANGED notSpsc
    \/ EnqWriteSlot /\ UNCHANGED notSpsc
    \/ EnqPublish /\ UNCHANGED notSpsc
    \/ DeqLoadHead /\ UNCHANGED notSpsc
    \/ DeqReloadTail /\ UNCHANGED notSpsc
    \/ DeqReadSlot /\ UNCHANGED notSpsc
    \/ DeqPublish /\ UNCHANGED notSpsc

SpecSpsc == Init /\ [][NextSpsc]_vars

\* the order book with its statistics and its trade callback
notBookStats == <<queueVars, poolVars, interviewVars, replayVars, loggerVars,
    gatewayVars, engineVars, interleaveVars, spscVars, omsVars,
    threadPoolVars>>

NextStats ==
    \/ SetTradeCallback /\ UNCHANGED notBookStats
    \/ StatsAddOrder /\ UNCHANGED notBookStats
    \/ StatsCancelOrder /\ UNCHANGED notBookStats
    \/ StatsModifyOrder /\ UNCHANGED notBookStats

SpecStats == Init /\ [][NextStats]_vars

\* an OrderManager called by its client and by the gateway
NextOms ==
    \/ OmsSubmitOrder /\ UNCHANGED notOms
    \/ OmsCancelOrder /\ UNCHANGED notOms
    \/ OmsModifyOrder /\ UNCHANGED notOms
    \/ GatewayCancelOrder /\ UNCHANGED notOms
    \/ GatewaySendOrder /\ UNCHANGED notOms
    \/ SimulateAcknowledge /\ UNCHANGED notOms
    \/ SimulateFill /\ UNCHANGED notOms
    \/ SimulateNoFill /\ UNCHANGED notOms

SpecOms == Init /\ [][NextOms]_vars

\* the ThreadPool program: workers, the submitting thread and shutdown()
Worker(i) ==
    \/ WorkerLock(i)
    \/ WorkerPredicate(i)
    \/ WorkerBlock(i)
    \/ WorkerTest(i)
    \/ WorkerRun(i)

NextThreadPool ==
    \/ \E i \in Workers : WorkerLock(i) /\ UNCHANGED notThreadPool
    \/ \E i \in Workers : WorkerPredicate(i) /\ UNCHANGED notThreadPool
    \/ \E i \in Workers : WorkerBlock(i) /\ UNCHANGED notThreadPool
    \/ \E i \in Workers : SpuriousWakeup(i) /\ UNCHANGED notThreadPool
    \/ \E i \in Workers : WorkerTest(i) /\ UNCHANGED notThreadPool
    \/ \E i \in Workers : WorkerRun(i) /\ UNCHANGED notThreadPool
    \/ SubmitPush /\ UNCHANGED notThreadPool
    \/ SubmitNotify /\ UNCHANGED notThreadPool
    \/ ShutdownStore /\ UNCHANGED notThreadPool
    \/ ShutdownNotifyAll /\ UNCHANGED notThreadPool
    \/ ShutdownJoin /\ UNCHANGED notThreadPool

\* every thread keeps running while it has a step to take; nobody is obliged
\* to submit or to call shutdown(), and no wakeup without a notification is
\* promised
ThreadPoolFairness ==
    /\ \A i \in Workers : WF_vars(Worker(i) /\ UNCHANGED notThreadPool)
    /\ WF_vars(SubmitNotify /\ UNCHANGED notThreadPool)
    /\ WF_vars((ShutdownNotifyAll \/ ShutdownJoin) /\ UNCHANGED notThreadPool)

SpecThreadPool == Init /\ [][NextThreadPool]_vars /\ ThreadPoolFairness

(***************************************************************************)
(* Properties of the order book                                            *)
(***************************************************************************)

\* the cells linked from c through OrderNode::next, in list order
RECURSIVE Chain(_, _)
Chain(c, fuel) ==
    IF c = nullptr \/ fuel = 0 THEN <<>>
    ELSE <<c>> \o Chain(nodes[c].next, fuel - 1)

Levels(side) == IF side = BUY THEN bid_levels_ ELSE ask_levels_

\* the nodes linked in a level, head first
LevelNodes(side, idx) == Chain(Levels(side)[idx].head, Cardinality(Cells))

Range(seq) == {seq[k] : k \in 1 .. Len(seq)}

\* the cells linked in some level of a side, and the prices they rest at
Linked(side) == UNION {Range(LevelNodes(side, i)) : i \in LevelIdx}
RestingPrices(side) == {nodes[c].order.price : c \in Linked(side)}

RECURSIVE SumQty(_)
SumQty(seq) == IF seq = <<>> THEN 0
               ELSE nodes[Head(seq)].order.quantity + SumQty(Tail(seq))

\* C1: after every addOrder, cancelOrder or modifyOrder, if both sides hold a
\* resting order then the best bid is below the best ask (never crossed).
C1_NotCrossed ==
    (RestingPrices(BUY) # {} /\ RestingPrices(SELL) # {})
        => SetMax(RestingPrices(BUY)) < SetMin(RestingPrices(SELL))

\* the opposite side still holds an order the limit of the last addOrder crosses
StillCrossable ==
    IF last_op.side = BUY
    THEN \E p \in RestingPrices(SELL) : p <= last_op.price
    ELSE \E p \in RestingPrices(BUY) : p >= last_op.price

\* C2: addOrder walks the book: the incoming order trades level after level
\* in price-priority order until its quantity is exhausted or the best
\* remaining opposite price is no longer crossable by its limit.
C2_WalkTheBook ==
    last_op.op = "add" =>
        /\ \A k \in 1 .. Len(trades) - 1 :
              IF last_op.side = BUY THEN trades[k].price <= trades[k + 1].price
                                    ELSE trades[k].price >= trades[k + 1].price
        /\ (last_op.residual = 0 \/ ~StillCrossable)

\* C3: time priority within a level: no trade is made against an order while
\* an order admitted earlier at the same price and side still rests with
\* remaining quantity.
C3_TimePriority ==
    \A k \in 1 .. Len(matches) : matches[k].earlier = {}

\* a trade against the oldest order of a level while a younger one rests
\* behind it, the oldest having been partially filled before
C3_Witness ==
    \E k \in 1 .. Len(matches) :
        /\ matches[k].later # {}
        /\ matches[k].fills > 0
        /\ matches[k].passive.quantity > 0

\* C4: every Trade carries the passive order's price, the minimum of the two
\* remaining quantities, the buy-side order's id as buy_order_id and the
\* sell-side order's id as sell_order_id.
C4_TradeFields ==
    /\ Len(trades) = Len(matches)
    /\ \A k \in 1 .. Len(trades) :
          LET t == trades[k]
              a == matches[k].aggressive
              p == matches[k].passive
          IN  /\ a.side # p.side
              /\ t.price = p.price
              /\ t.quantity = Min(a.quantity, p.quantity)
              /\ t.buy_order_id = (IF a.side = BUY THEN a.order_id ELSE p.order_id)
              /\ t.sell_order_id = (IF a.side = SELL THEN a.order_id ELSE p.order_id)

\* a trade whose aggressor is a sell limited below the resting bid's price,
\* for less than the aggressor's remaining quantity
C4_Witness ==
    \E k \in 1 .. Len(trades) :
        /\ matches[k].aggressive.side = SELL
        /\ matches[k].aggressive.price < trades[k].price
        /\ trades[k].quantity < matches[k].aggressive.quantity
        /\ trades[k].buy_order_id # trades[k].sell_order_id

\* C5: for every level of both sides total_quantity is the sum of the
\* quantities of the linked nodes (in uint32_t arithmetic) and order_count is
\* the number of linked nodes.
C5_LevelTotals ==
    \A s \in Sides, i \in LevelIdx :
        /\ Levels(s)[i].total_quantity = SumQty(LevelNodes(s, i)) % QtyMod
        /\ Levels(s)[i].order_count = Len(LevelNodes(s, i))

\* a level that, after a successful cancel or modify, still holds two orders
C5_Witness ==
    /\ last_op.op \in {"cancel", "modify"}
    /\ last_op.result
    /\ \E s \in Sides, i \in LevelIdx :
          Levels(s)[i].order_count = 2 /\ Levels(s)[i].total_quantity > 0

\* C6: order_map_ maps an id to node n iff n is linked in exactly one level of
\* its side and carries that id.
C6_DirectoryConsistent ==
    /\ \A id \in OrderIds :
          order_map_[id] # nullptr =>
              /\ nodes[order_map_[id]].order.order_id = id
              /\ Cardinality({i \in LevelIdx :
                    order_map_[id] \in Range(LevelNodes(nodes[order_map_[id]].order.side, i))}) = 1
    /\ \A s \in Sides : \A c \in Linked(s) : order_map_[nodes[c].order.order_id] = c

\* C7: getBestBid() is the highest price of a bid level holding an order, or 0;
\* getBestAsk() is the lowest price of an ask level holding an order, or
\* UINT64_MAX.
C7_BestPrices ==
    /\ best_bid_ = IF RestingPrices(BUY) = {} THEN 0 ELSE SetMax(RestingPrices(BUY))
    /\ best_ask_ = IF RestingPrices(SELL) = {} THEN UINT64_MAX
                   ELSE SetMin(RestingPrices(SELL))

\* the only bid has just been cancelled while asks rest on two levels
C7_Witness ==
    /\ last_op.op = "cancel"
    /\ last_op.result
    /\ RestingPrices(BUY) = {}
    /\ best_bid_ = 0
    /\ Cardinality(RestingPrices(SELL)) = 2
    /\ best_ask_ = base_price_

(***************************************************************************)
(* Properties of the LockFreeQueue                                         *)
(***************************************************************************)

\* number of items pushed and not yet popped
Unread == Len(pushed) - Len(popped)

\* C8: with one producer and one consumer, under every interleaving, the
\* values returned by successful pops are the values of the successful
\* pushes, in the same order, none lost, duplicated or reordered.
C8_FifoOrder ==
    /\ Len(popped) <= Len(pushed)
    /\ \A k \in 1 .. Len(popped) : popped[k] = pushed[k]
    /\ Unread = (tail_ - head_) % Size
    /\ \A k \in 0 .. Unread - 1 :
          buffer_[(head_ + k) % Size] = pushed[Len(popped) + k + 1]

\* the indices have wrapped around, more items than slots have gone through,
\* and the consumer is reading a slot while the producer is about to publish
C8_Witness ==
    /\ Len(popped) >= Size
    /\ p_pc = "publish"
    /\ c_pc = "read"

\* C9: push on a full queue returns false and pop on an empty queue returns
\* nullopt, leaving head_, tail_ and the slots unchanged; a push (pop) that
\* finds room (an item) goes on to succeed.
C9_FullEmptyNoEffect ==
    [][ /\ (p_pc = "check" /\ p_pc' # "check") =>
             IF NextIndex(tail_) = head_
             THEN p_ret' = "full" /\ p_pc' = "idle" /\ UNCHANGED <<head_, tail_, buffer_>>
             ELSE p_pc' = "write"
        /\ (c_pc = "check" /\ c_pc' # "check") =>
             IF head_ = tail_
             THEN c_ret' = "nullopt" /\ c_pc' = "idle" /\ UNCHANGED <<head_, tail_, buffer_>>
             ELSE c_pc' = "read"
        /\ (p_pc \in {"write", "publish"} /\ p_pc' = "idle") =>
             p_ret' = "ok" /\ Len(pushed') = Len(pushed) + 1
        /\ (c_pc \in {"read", "publish"} /\ c_pc' = "idle") =>
             c_ret' = "value" /\ Len(popped') = Len(popped) + 1
        /\ (p_pc = "idle" /\ p_pc' = "check") => UNCHANGED <<head_, tail_, buffer_>>
        /\ (c_pc = "idle" /\ c_pc' = "check") => UNCHANGED <<head_, tail_, buffer_>>
      ]_vars

\* a push has just been refused on a queue holding Size - 1 unread items
\* after an earlier pop was refused on the empty queue
C9_Witness ==
    /\ p_ret = "full"
    /\ p_pc = "idle"
    /\ Unread = Size - 1
    /\ c_ret = "nullopt"

\* the members of the OrderBook
bookState == <<bid_levels_, ask_levels_, best_bid_, best_ask_, order_pool_, nodes,
               order_map_, total_volume_, trade_count_>>

\* C12: cancelOrder or modifyOrder naming an id that order_map_ does not hold
\* returns false, emits no trade and leaves the levels, the nodes, the
\* directory, the best prices and the trade statistics unchanged.
C12_UnknownIdRejected ==
    [][(/\ ncalls' = ncalls + 1
        /\ last_op'.op \in {"cancel", "modify"}
        /\ order_map_[last_op'.order_id] = nullptr)
       => (/\ last_op'.result = FALSE
           /\ trades' = <<>>
           /\ UNCHANGED bookState)]_vars

\* cancelOrder or modifyOrder has returned false for an id that is not in
\* order_map_, while an order rests and trades have been made
C12_Witness ==
    /\ last_op.op \in {"cancel", "modify"}
    /\ last_op.result = FALSE
    /\ order_map_[last_op.order_id] = nullptr
    /\ trade_count_ > 0
    /\ Linked(BUY) \cup Linked(SELL) # {}

\* C13: addOrder with quantity 0 is rejected at admission: it reports failure,
\* emits no trade and changes no book state.
C13_ZeroQuantityRejected ==
    [][(/\ ncalls' = ncalls + 1
        /\ last_op'.op = "add"
        /\ last_op'.quantity = 0)
       => (/\ last_op'.result = FALSE
           /\ trades' = <<>>
           /\ UNCHANGED bookState)]_vars

\* a price that has no level on the ladder
OutsideLadder(price) == price < base_price_ \/ price >= base_price_ + MAX_PRICE_LEVELS

\* C14: addOrder with a price outside the ladder is rejected: it reports
\* failure, emits no trade and changes no resting order, level, directory
\* entry or statistic.
C14_OutsideLadderRejected ==
    [][(/\ ncalls' = ncalls + 1
        /\ last_op'.op = "add"
        /\ OutsideLadder(last_op'.price))
       => (/\ last_op'.result = FALSE
           /\ trades' = <<>>
           /\ UNCHANGED bookState)]_vars

\* no linked order has quantity 0
NoZeroResting ==
    \A side \in Sides : \A c \in Linked(side) : nodes[c].order.quantity > 0

\* C15: modifyOrder with new_quantity = 0 is rejected: it returns false and
\* leaves the order's quantity, its level's total_quantity and all other
\* state unchanged, so that no order with quantity 0 rests in the book.
C15_ZeroModifyRejected ==
    [][(/\ ncalls' = ncalls + 1
        /\ last_op'.op = "modify"
        /\ last_op'.quantity = 0)
       => (/\ last_op'.result = FALSE
           /\ UNCHANGED bookState
           /\ NoZeroResting')]_vars

\* C16: a modifyOrder that increases an order's quantity makes the order lose
\* time priority: afterwards no trade is made against it while an order that
\* was resting at its price when the modify was applied still rests with
\* remaining quantity.
C16_RaiseLosesPriority ==
    \A k \in 1 .. Len(matches) : matches[k].overtaken = {}

RECURSIVE SumTradeQty(_)
SumTradeQty(list) ==
    IF list = <<>> THEN 0 ELSE Head(list).quantity + SumTradeQty(Tail(list))

\* C21: quantity conservation: after addOrder of quantity Q the quantities of
\* the trades of the call plus the residual left by matching equal Q; every
\* trade takes no more than either order had, and the passive order is left
\* with its quantity less the trade's (it is unlinked when nothing is left),
\* without wrap-around.
C21_Conservation ==
    last_op.op = "add" =>
        /\ SumTradeQty(trades) + last_op.residual = last_op.quantity
        /\ last_op.residual >= 0
        /\ \A k \in 1 .. Len(trades) :
              LET t == trades[k]
                  p == matches[k].passive
                  c == matches[k].cell
              IN  /\ t.quantity <= p.quantity
                  /\ t.quantity <= matches[k].aggressive.quantity
                  /\ IF t.quantity < p.quantity
                     THEN /\ nodes[c].live
                          /\ nodes[c].order = [p EXCEPT !.quantity = @ - t.quantity]
                     ELSE \/ ~nodes[c].live
                          \/ admit[c].seq = ncalls

\* an addOrder has traded part of its quantity against a resting order it
\* used up, and another part against one it left a remainder of
C21_Witness ==
    /\ last_op.op = "add"
    /\ Len(trades) = 2
    /\ trades[1].quantity = matches[1].passive.quantity
    /\ trades[1].quantity > 0
    /\ trades[2].quantity < matches[2].passive.quantity
    /\ trades[2].quantity > 0

(***************************************************************************)
(* Round trip: addOrder followed by cancelOrder of the order added         *)
(***************************************************************************)

\* what the round trip compares: the levels with their node lists (cells and
\* the orders in them), the directory, the best prices, the trade statistics
Snapshot ==
    [bid_levels_ |-> bid_levels_, ask_levels_ |-> ask_levels_,
     lists |-> [side \in Sides |-> [i \in LevelIdx |->
                    [k \in 1 .. Len(LevelNodes(side, i)) |->
                        <<LevelNodes(side, i)[k], nodes[LevelNodes(side, i)[k]].order>>]]],
     order_map_ |-> order_map_, best_bid_ |-> best_bid_, best_ask_ |-> best_ask_,
     total_volume_ |-> total_volume_, trade_count_ |-> trade_count_]

\* the id is in no directory entry and on no node
FreshId(order_id) ==
    /\ order_map_[order_id] = nullptr
    /\ \A c \in Cells : nodes[c].live => nodes[c].order.order_id # order_id

\* the limit does not reach the best opposite price
NonCrossing(side, price) ==
    IF side = BUY THEN best_ask_ = UINT64_MAX \/ price < best_ask_
                  ELSE best_bid_ = 0 \/ price > best_bid_

\* addOrder, remembering the book before it when the order is in range, does
\* not cross and has a fresh id
RoundTripAddOrder ==
    /\ AddOrder
    /\ round_trip' =
          IF /\ FreshId(last_op'.order_id)
             /\ LevelIndex(last_op'.price) < MAX_PRICE_LEVELS
             /\ NonCrossing(last_op'.side, last_op'.price)
          THEN [stage |-> "added", order_id |-> last_op'.order_id,
                side |-> last_op'.side, price |-> last_op'.price, before |-> Snapshot]
          ELSE NoRoundTrip

\* cancelOrder; it closes the round trip when it names the order just added
RoundTripCancelOrder ==
    /\ CancelOrder
    /\ round_trip' =
          IF round_trip.stage = "added" /\ last_op'.order_id = round_trip.order_id
          THEN [round_trip EXCEPT !.stage = "cancelled"]
          ELSE NoRoundTrip

RoundTripModifyOrder ==
    /\ ModifyOrder
    /\ round_trip' = NoRoundTrip

NextRoundTrip ==
    \/ RoundTripAddOrder /\ UNCHANGED notBook
    \/ RoundTripCancelOrder /\ UNCHANGED notBook
    \/ RoundTripModifyOrder /\ UNCHANGED notBook

SpecRoundTrip == Init /\ [][NextRoundTrip]_vars

\* C22: addOrder of an in-range, non-crossing order with a fresh id followed
\* by cancelOrder of that id restores the book: the levels (node lists,
\* price, total_quantity, order_count), the directory, best_bid_ and
\* best_ask_ and the trade statistics are those before the addOrder.
C22_RoundTrip ==
    round_trip.stage = "cancelled" => Snapshot = round_trip.before

\* the order of a round trip was appended behind a resting order of its level
\* and cancelled again, other orders resting on the opposite side
C22_Witness ==
    /\ round_trip.stage = "cancelled"
    /\ last_op.result = TRUE
    /\ Levels(round_trip.side)[LevelIndex(round_trip.price)].order_count > 0
    /\ Linked(IF round_trip.side = BUY THEN SELL ELSE BUY) # {}

\* C23: replay determinism: two fresh books fed the same sequence of calls
\* emit identical trade streams, field for field (ids, price, quantity and
\* timestamp) and in the same order, and return identical results.
C23_ReplayDeterminism ==
    /\ replay.emitted[1] = replay.emitted[2]
    /\ replay.results[1] = replay.results[2]

\* the order of the last addOrder rests with its full quantity: the directory
\* names a node of its side, price and quantity that is linked in the level
\* of that price
RestsInFull ==
    /\ order_map_[last_op.order_id] # nullptr
    /\ LET c == order_map_[last_op.order_id]
       IN  /\ nodes[c].order.side = last_op.side
           /\ nodes[c].order.price = last_op.price
           /\ nodes[c].order.quantity = last_op.quantity
           /\ LevelIndex(last_op.price) < MAX_PRICE_LEVELS
           /\ c \in Range(LevelNodes(last_op.side, LevelIndex(last_op.price)))

\* the best opposite price an incoming order of `side` meets, if there is one
HasOpposite(side) == IF side = BUY THEN best_ask_ # UINT64_MAX ELSE best_bid_ # 0
BestOpposite(side) == IF side = BUY THEN best_ask_ ELSE best_bid_

\* C24: price boundary: an incoming limit order priced at the best opposite
\* price trades, its first trade being against the oldest order of that
\* level; a buy one tick below the best ask, or a sell one tick above the
\* best bid, emits no trade and rests with its full quantity.
C24_PriceBoundary ==
    [][(ncalls' = ncalls + 1 /\ last_op'.op = "add" /\ HasOpposite(last_op'.side))
       => LET side == last_op'.side
              best == BestOpposite(side)
              oldest == Levels(IF side = BUY THEN SELL ELSE BUY)[LevelIndex(best)].head
          IN  /\ last_op'.price = best
                    => (/\ Len(trades') >= 1
                        /\ matches'[1].cell = oldest
                        /\ trades'[1].price = best)
              /\ last_op'.price = (IF side = BUY THEN best - 1 ELSE best + 1)
                    => (/\ trades' = <<>>
                        /\ RestsInFull')]_vars

\* C25 as stated: the stored head and tail indices are never moduloed, so
\* neither stored index ever decreases over any sequence of pushes and pops.
C25_IndicesMonotonic ==
    [][head_' >= head_ /\ tail_' >= tail_]_vars

\* C25 as the code has it: the stored indices are themselves masked; a
\* successful push (pop) advances tail_ (head_) by one modulo Size, so both
\* stay within 0 .. Size - 1 and wrap to 0 after Size - 1, and the slot a push
\* writes is the one at the stored tail index.
C25_IndicesMasked ==
    [][ /\ tail_' \in {tail_, (tail_ + 1) % Size}
        /\ head_' \in {head_, (head_ + 1) % Size}
        /\ tail_' \in 0 .. Size - 1
        /\ head_' \in 0 .. Size - 1
        /\ (p_pc = "publish" /\ p_pc' = "idle") => tail_' = (tail_ + 1) % Size
        /\ (c_pc = "publish" /\ c_pc' = "idle") => head_' = (head_ + 1) % Size
        /\ buffer_' # buffer_ =>
             /\ buffer_' = [buffer_ EXCEPT ![tail_] = item]
             /\ tail_ \in DOMAIN buffer_
      ]_vars

\* the stored tail index has wrapped from Size - 1 back to 0 and the stored
\* head index is about to follow it
C25_Witness ==
    /\ Len(pushed) = Size
    /\ tail_ = 0
    /\ head_ = Size - 1
    /\ c_pc = "publish"

\* the next statement of the running push, of the running pop
PushStep == PushCheckFull \/ PushWriteSlot \/ PushPublish
PopStep == PopCheckEmpty \/ PopReadSlot \/ PopPublish

\* C26: LockFreeQueue is wait-free: a push and a pop each finish within a
\* bounded number of their own steps whatever the other thread does; a call
\* executes at most its four statements (no retry), its next statement can
\* always be taken whatever state the other thread is in (no waiting), and
\* a call that has finished has returned success or full/empty.
C26_WaitFree ==
    /\ p_steps <= 4
    /\ c_steps <= 4
    /\ p_pc # "idle" => ENABLED PushStep
    /\ c_pc # "idle" => ENABLED PopStep
    /\ (p_pc = "idle" /\ p_steps > 0) => p_ret \in {"ok", "full"}
    /\ (c_pc = "idle" /\ c_steps > 0) => c_ret \in {"value", "nullopt"}
    /\ p_ret = "full" => p_steps = 2
    /\ c_ret = "nullopt" => c_steps = 2
    /\ (p_pc = "idle" /\ p_ret = "ok") => p_steps = 4
    /\ (c_pc = "idle" /\ c_ret = "value") => c_steps = 4

\* a push has been refused on the full queue in two steps while the consumer
\* is in the middle of a pop, after pops had been refused and had succeeded
C26_Witness ==
    /\ p_pc = "idle"
    /\ p_ret = "full"
    /\ p_steps = 2
    /\ c_pc = "read"
    /\ Len(popped) >= 1

(***************************************************************************)
(* Properties of the Logger                                                 *)
(***************************************************************************)

\* the slots from the stored head up to the stored tail, in ring order
RECURSIVE LogQueued(_, _)
LogQueued(h, n) ==
    IF n = 0 THEN {} ELSE {log_buffer_[h]} \cup LogQueued((h + 1) % Size, n - 1)

\* two threads are inside message_queue_.push at the same time
ConcurrentPush == \E t, u \in LogThreads : t # u /\ log_pc[t] # "idle" /\ log_pc[u] # "idle"

\* every message whose push returned true has been written to the file, or
\* is in the writer's hands, or is still in a slot between head and tail
AcceptedKept ==
    \A k \in 1 .. Len(log_accepted) :
        \/ log_accepted[k] \in Range(log_written)
        \/ w_pc = "publish" /\ log_accepted[k] = w_item
        \/ log_accepted[k] \in LogQueued(log_head_, (log_tail_ - log_head_ + Size) % Size)

\* C27: Logger::message_queue_ is pushed to by one thread only: the main
\* thread and the gateway's processing thread are never inside push at the
\* same time, and no message whose push returned true is overwritten or lost.
C27_SingleProducer == ~ConcurrentPush /\ AcceptedKept

(***************************************************************************)
(* Properties of the ExchangeGateway                                        *)
(***************************************************************************)

\* s is an initial part of t
IsPrefix(s, t) == Len(s) <= Len(t) /\ \A k \in 1 .. Len(s) : s[k] = t[k]

\* C28: every order for which sendOrder returned true is eventually passed
\* to simulateExecution by the processing thread, exactly once and in
\* enqueue order, under every interleaving of sendOrder, disconnect and the
\* processing thread; the thread does not exit leaving accepted orders
\* behind.
C28_Pipeline ==
    /\ [] IsPrefix(gw_processed, gw_sent)
    /\ \A o \in 1 .. MaxSends :
          (o \in Range(gw_sent)) ~> (o \in Range(gw_processed))

(***************************************************************************)
(* Properties of the OrderBook-Engine                                       *)
(***************************************************************************)

\* the orders of a queue are in arrival order (ids are arrival numbers)
InArrivalOrder(q) == \A i, j \in 1 .. Len(q) : i < j => q[i].id < q[j].id

\* the resting side a printed trade took its order from
RestingSide(line) == IF line.side = "BUY" THEN "SELL" ELSE "BUY"

\* C30: within a price level the oldest resting order fills first across
\* successive incoming orders: a partially filled resting order stays at the
\* front of its level's queue, and no order that arrived later at that price
\* receives a fill before an older one has been fully consumed.
C30_TimePriority ==
    /\ \A p \in EnginePrices : InArrivalOrder(bids[p]) /\ InArrivalOrder(asks[p])
    /\ \A k, l \in 1 .. Len(printed) :
          (k < l /\ printed[k].price = printed[l].price
                 /\ RestingSide(printed[k]) = RestingSide(printed[l]))
             => printed[k].resting <= printed[l].resting

(***************************************************************************)
(* Properties of interleaved calls on disjoint price levels                 *)
(***************************************************************************)

\* the trade stream a book emitted over the two swapped calls: book 1 made
\* e1 then e2, book 2 made e2 then e1
StreamOf(k) ==
    IF k = 1
    THEN interleave.emitted[1][1] \o interleave.emitted[1][2]
    ELSE interleave.emitted[2][2] \o interleave.emitted[2][1]

\* C29 as stated: two event sequences that differ only by the relative order
\* of events on disjoint price levels produce identical trade streams: the
\* same trades in the same order.
C29_SameStream ==
    interleave.stage = "swapped" => StreamOf(1) = StreamOf(2)

(***************************************************************************)
(* Properties of the MemoryPool                                            *)
(***************************************************************************)

\* the last call was an allocate() made while every cell was held
ExhaustedAllocate == pool_op.op = "allocate" /\ pool_op.before.free_list_ = nullptr

Reverse(seq) == [k \in 1 .. Len(seq) |-> seq[Len(seq) + 1 - k]]

\* C11: the free list is LIFO: the cells given back and not handed out since
\* stand at the front of the free list, the most recently released first, and
\* allocate() made while there is such a cell returns the most recently
\* released one (so deallocate(p) then allocate() returns p, and k
\* deallocations then k allocations return the cells in reverse order).
C11_LifoReuse ==
    /\ Len(FreeList(test_pool)) >= Len(released)
    /\ SubSeq(FreeList(test_pool), 1, Len(released)) = Reverse(released)
    /\ (pool_op.op = "allocate" /\ pool_op.released # <<>>) =>
          /\ pool_op.ptr = pool_op.released[Len(pool_op.released)]
          /\ released = SubSeq(pool_op.released, 1, Len(pool_op.released) - 1)

\* allocate() has returned the later released of two cells while free cells
\* that were never handed out were in the list as well
C11_Witness ==
    /\ pool_op.op = "allocate"
    /\ Len(pool_op.released) >= 2
    /\ Len(FreeList(pool_op.before)) > Len(pool_op.released)
    /\ pool_op.ptr = pool_op.released[Len(pool_op.released)]

(***************************************************************************)
(* Properties of the OrderBook of 02-hft-datastructures                    *)
(***************************************************************************)

\* the ids linked in the level of `side` at `price`, in FIFO order
LevelFifo(ob, side, price) ==
    IF price \in DOMAIN LevelsOf(ob, side) THEN LevelsOf(ob, side)[price].orders_
    ELSE <<>>

\* the places (price, position) of `side` where the order `id` is linked
LinkedAt(ob, side, id) ==
    {pk \in InterviewPrices \X (1 .. MaxInterviewCalls + 2) :
        /\ pk[2] <= Len(LevelFifo(ob, side, pk[1]))
        /\ LevelFifo(ob, side, pk[1])[pk[2]] = id}

RECURSIVE SumRemaining(_, _)
SumRemaining(ob, ids) ==
    IF ids = {} THEN 0
    ELSE LET id == CHOOSE x \in ids : TRUE
         IN  remaining_quantity(ob.orders_[id]) + SumRemaining(ob, ids \ {id})

\* the quantity a limit of `side` at `price` can trade against: the remaining
\* quantities of the contra orders resting at prices the limit reaches
CrossableQty(ob, side, price) ==
    LET contra_side == IF side = BUY THEN SELL ELSE BUY
        reached == {p \in DOMAIN LevelsOf(ob, contra_side) :
                       IF side = BUY THEN price >= p ELSE price <= p}
    IN  SumRemaining(ob, UNION {Range(LevelFifo(ob, contra_side, p)) : p \in reached})

\* C17: add_order of a FOK order whose quantity exceeds the crossable quantity
\* of the opposite side emits no trade and mutates nothing: the orders that
\* existed keep filled quantity and status, the levels are as before, and
\* the trade list and the trade and volume counters are unchanged.
C17_FokUnfillableNoEffect ==
    LET before == interview_op.before
    IN  (/\ interview_op.op = "add"
         /\ interview_op.type = "FOK"
         /\ interview_op.quantity >
                CrossableQty(before, interview_op.side, interview_op.price))
        => (/\ interview_book.trades_ = before.trades_
            /\ interview_book.total_trades_ = before.total_trades_
            /\ interview_book.total_volume_ = before.total_volume_
            /\ interview_book.buy_levels_ = before.buy_levels_
            /\ interview_book.sell_levels_ = before.sell_levels_
            /\ \A id \in DOMAIN before.orders_ :
                    interview_book.orders_[id] = before.orders_[id])

RECURSIVE TradedQty(_, _)
\* the quantity of the trades of `list` that name the order `id`
TradedQty(list, id) ==
    IF list = <<>> THEN 0
    ELSE (IF id \in {Head(list).buy_order_id, Head(list).sell_order_id}
          THEN Head(list).quantity ELSE 0) + TradedQty(Tail(list), id)

\* C18: an IOC order never rests: once add_order has returned it is linked in
\* no price level and its status is FILLED (no residual) or CANCELLED (a
\* residual, cancelled), and the trades made for it stand in the trade list.
C18_IocNeverRests ==
    \A id \in DOMAIN interview_book.orders_ :
        LET order == interview_book.orders_[id]
        IN  order.type = "IOC" =>
              /\ LinkedAt(interview_book, BUY, id) = {}
              /\ LinkedAt(interview_book, SELL, id) = {}
              /\ \/ order.status = "FILLED" /\ remaining_quantity(order) = 0
                 \/ order.status = "CANCELLED" /\ remaining_quantity(order) > 0
              /\ TradedQty(interview_book.trades_, id) = order.filled_quantity

\* an IOC order has traded part of its quantity against a resting order and
\* its residual was cancelled, while another order still rests
C18_Witness ==
    /\ interview_op.op = "add"
    /\ interview_op.type = "IOC"
    /\ LET order == interview_book.orders_[interview_op.order_id]
       IN  /\ order.status = "CANCELLED"
           /\ order.filled_quantity > 0
           /\ remaining_quantity(order) > 0
    /\ DOMAIN interview_book.buy_levels_ \cup DOMAIN interview_book.sell_levels_ # {}

\* C19: after every call an order is active (NEW or PARTIALLY_FILLED) if and
\* only if it is linked in exactly one price level of its own side (and in
\* none of the other side); a MARKET order with a residual is not active.
C19_ActiveIffLinked ==
    \A id \in DOMAIN interview_book.orders_ :
        LET order == interview_book.orders_[id]
            other == IF order.side = BUY THEN SELL ELSE BUY
        IN  is_active(order) <=>
              /\ Cardinality(LinkedAt(interview_book, order.side, id)) = 1
              /\ LinkedAt(interview_book, other, id) = {}

\* C20: modify_order with the order's price and a quantity below its
\* remaining quantity reduces the order in place: it returns true, the order
\* keeps its id (it stays active, with the new remaining quantity) and the
\* FIFO of its level is as before, so that no later order overtakes it.
C20_ReduceInPlace ==
    LET before == interview_op.before
        id == interview_op.order_id
    IN  (/\ interview_op.op = "modify"
         /\ id \in DOMAIN before.orders_
         /\ is_active(before.orders_[id])
         /\ LinkedAt(before, before.orders_[id].side, id) # {}
         /\ interview_op.price = before.orders_[id].price
         /\ interview_op.quantity < remaining_quantity(before.orders_[id]))
        => (/\ interview_op.result = TRUE
            /\ is_active(interview_book.orders_[id])
            /\ remaining_quantity(interview_book.orders_[id]) = interview_op.quantity
            /\ LevelFifo(interview_book, before.orders_[id].side, interview_op.price)
                   = LevelFifo(before, before.orders_[id].side, interview_op.price))

\* C31: after every add_order, cancel_order and modify_order, total_quantity()
\* of each PriceLevel equals the sum of remaining_quantity() over the orders
\* in that level, also after the front order was fully filled and popped.
C31_LevelTotals ==
    \A side \in Sides : \A p \in DOMAIN LevelsOf(interview_book, side) :
        LevelsOf(interview_book, side)[p].total_quantity_
            = SumRemaining(interview_book,
                           Range(LevelsOf(interview_book, side)[p].orders_))

(***************************************************************************)
(* Properties of the LockFreeQueue, continued                              *)
(***************************************************************************)

\* no push and no pop is in progress
Quiescent == p_pc = "idle" /\ c_pc = "idle"

\* C32: between calls, size() equals the number of successful pushes minus
\* the number of successful pops, and empty() is true exactly when that
\* number is 0; a new queue is empty.
C32_SizeAndEmpty ==
    Quiescent =>
        /\ size(head_, tail_) = Len(pushed) - Len(popped)
        /\ empty(head_, tail_) <=> (Len(pushed) - Len(popped) = 0)

\* the tail has wrapped behind the head and items are queued
C32_Witness ==
    /\ Quiescent
    /\ tail_ < head_
    /\ Len(pushed) - Len(popped) > 0

\* the slot written by the n-th successful push
SlotOfPush(n) == (n - 1) % Size

\* C33: the consumer never reads a slot whose write by the producer has not
\* completed, and the producer never writes a slot that holds a pushed value
\* the consumer has not finished reading.
C33_SlotSafety ==
    /\ c_pc = "read" =>
          /\ Len(pushed) > Len(popped)
          /\ current_head = SlotOfPush(Len(popped) + 1)
          /\ buffer_[current_head] = pushed[Len(popped) + 1]
          /\ ~(p_pc = "write" /\ current_tail = current_head)
    /\ p_pc = "write" =>
          \A n \in (Len(popped) + 1) .. Len(pushed) : SlotOfPush(n) # current_tail

\* the consumer is about to read and the producer about to write, with every
\* slot but the two in use and the indices wrapped
C33_Witness ==
    /\ c_pc = "read"
    /\ p_pc = "write"
    /\ Unread = Size - 2
    /\ Len(pushed) >= Size

(***************************************************************************)
(* Properties of the SPSCQueue of 02-hft-datastructures                    *)
(***************************************************************************)

\* number of items enqueued and not yet dequeued
Held == Len(enqueued) - Len(dequeued)

\* what the producer (consumer) believes is queued, from its cached index
ProducerView == (spsc_tail_ - cached_head_) % SpscSize
ConsumerView == (cached_tail_ - spsc_head_) % SpscSize

SpscSafe ==
    \* a stale cached index is conservative
    /\ Held = (spsc_tail_ - spsc_head_) % SpscSize
    /\ ProducerView >= Held
    /\ ConsumerView <= Held
    \* try_enqueue never overwrites a slot not yet consumed
    /\ e_pc = "write" =>
          \A n \in (Len(dequeued) + 1) .. Len(enqueued) :
              (n - 1) % SpscSize # e_frame.current_tail
    \* try_dequeue never returns a slot not yet published
    /\ d_pc = "read" =>
          /\ Held > 0
          /\ spsc_buffer_[d_frame.current_head] = enqueued[Len(dequeued) + 1]
    \* the values come out in FIFO order, each once
    /\ IsPrefix(dequeued, enqueued)

SpscReports ==
    /\ (e_pc # "idle" /\ e_pc' = "idle" /\ e_ret' = "full") => Held = SpscSize - 1
    /\ (d_pc # "idle" /\ d_pc' = "idle" /\ d_ret' = "nullopt") => Held = 0

\* C34: under every interleaving of one producer and one consumer, a stale
\* cached_head_ or cached_tail_ is conservative: try_enqueue never overwrites
\* a slot not yet consumed, try_dequeue never returns a slot not yet
\* published, values come out in FIFO order exactly once, try_enqueue reports
\* full only when the queue holds Size - 1 items at its reload of head_, and
\* try_dequeue reports empty only when the queue is empty at its reload of tail_.
C34_CachedIndices == []SpscSafe /\ [][SpscReports]_vars

\* both cached indices are stale, the producer writes on the strength of its
\* cached head and the consumer reads on the strength of its cached tail,
\* after the indices have wrapped
C34_Witness ==
    /\ e_pc = "write"
    /\ d_pc = "read"
    /\ cached_head_ # spsc_head_
    /\ cached_tail_ # spsc_tail_
    /\ Len(enqueued) >= SpscSize

(***************************************************************************)
(* Properties of the order book, continued                                 *)
(***************************************************************************)

\* the cells of the blocks order_pool_ has obtained
PoolCells == UNION {BlockCells(k) : k \in 0 .. order_pool_.blocks_ - 1}

\* how often x occurs in seq
Occurrences(seq, x) == Cardinality({k \in 1 .. Len(seq) : seq[k] = x})

\* C35: each pool cell is either on the free list exactly once or a live
\* node linked exactly once in exactly one price level, never both; no
\* order_map_ entry and no level list (head, tail, next, prev) points to a
\* cell that is on the free list.
C35_NodeOwnership ==
    \E free \in {FreeList(order_pool_)} :
        /\ \A c \in PoolCells :
              \E links \in {[si \in Sides \X LevelIdx |->
                                Occurrences(LevelNodes(si[1], si[2]), c)]} :
                 \/ /\ Occurrences(free, c) = 1
                    /\ ~nodes[c].live
                    /\ \A si \in Sides \X LevelIdx : links[si] = 0
                 \/ /\ Occurrences(free, c) = 0
                    /\ nodes[c].live
                    /\ \E si \in Sides \X LevelIdx :
                          /\ links[si] = 1
                          /\ \A other \in (Sides \X LevelIdx) \ {si} : links[other] = 0
        /\ \A id \in OrderIds : order_map_[id] = nullptr \/ order_map_[id] \notin Range(free)
        /\ \A s \in Sides, i \in LevelIdx :
              /\ Levels(s)[i].head = nullptr \/ Levels(s)[i].head \notin Range(free)
              /\ Levels(s)[i].tail = nullptr \/ Levels(s)[i].tail \notin Range(free)
        /\ \A c \in PoolCells :
              nodes[c].live =>
                  /\ nodes[c].next = nullptr \/ nodes[c].next \notin Range(free)
                  /\ nodes[c].prev = nullptr \/ nodes[c].prev \notin Range(free)

\* a call has returned a node to the pool while other nodes stay linked, the
\* pool having grown beyond its first block
C35_Witness ==
    /\ order_pool_.blocks_ > 1
    /\ last_op.op \in {"add", "cancel"}
    /\ FreeList(order_pool_) # <<>>
    /\ Linked(BUY) \cup Linked(SELL) # {}
    /\ \E c \in PoolCells : ~nodes[c].live /\ c < SetMax(Linked(BUY) \cup Linked(SELL))

\* C36: for every level, order_count = 0 iff head = tail = nullptr iff
\* total_quantity = 0.
C36_LevelEmptiness ==
    \A s \in Sides, i \in LevelIdx :
        /\ (Levels(s)[i].order_count = 0)
              <=> (Levels(s)[i].head = nullptr /\ Levels(s)[i].tail = nullptr)
        /\ (Levels(s)[i].order_count = 0) <=> (Levels(s)[i].total_quantity = 0)

\* C37: getTradeCount() equals the number of trades executed so far and
\* getTotalVolume() the sum of their quantities, whether or not a trade
\* callback is installed; an installed callback is invoked exactly once per
\* trade of a call, in execution order.
C37_Statistics ==
    /\ trade_count_ = stats.executed
    /\ total_volume_ = stats.volume
    /\ Len(stats.invoked) = IF stats.installed THEN Len(matches) ELSE 0
    /\ \A k \in 1 .. Len(stats.invoked) :
          /\ stats.invoked[k].quantity
                = Min(matches[k].aggressive.quantity, matches[k].passive.quantity)
          /\ {stats.invoked[k].buy_order_id, stats.invoked[k].sell_order_id}
                = {matches[k].aggressive.order_id, matches[k].passive.order_id}
          /\ stats.invoked[k].price = matches[k].passive.price

\* one call made two different trades with a callback installed
C37_Witness ==
    /\ stats.installed
    /\ Len(stats.invoked) = 2
    /\ stats.executed = 2
    /\ stats.invoked[1] # stats.invoked[2]

\* C38: the queue holds at most Size - 1 items: at no time are there more
\* than Size - 1 pushed and unpopped items, and while nothing has been popped
\* the first Size - 1 pushes succeed and every later push returns false.
C38_Capacity ==
    /\ Unread <= Size - 1
    /\ (popped = <<>> /\ p_pc = "idle" /\ pushes > 0) =>
          /\ p_ret = IF pushes <= Size - 1 THEN "ok" ELSE "full"
          /\ Len(pushed) = Min(pushes, Size - 1)

\* the push after Size - 1 successful ones has returned false, nothing popped
C38_Witness ==
    /\ popped = <<>>
    /\ p_pc = "idle"
    /\ pushes = Size
    /\ p_ret = "full"
    /\ Len(pushed) = Size - 1

(***************************************************************************)
(* Properties of the OrderManager                                          *)
(***************************************************************************)

\* C39: once the status of an order is FILLED, CANCELLED or REJECTED, no
\* later call, the calls of the gateway's processing thread included,
\* changes its status, filled quantity, price or quantity.
C39_TerminalAbsorbing ==
    [][\A id \in DOMAIN oms_orders_ :
          oms_orders_[id].status \in Terminal =>
              /\ oms_orders_'[id].status = oms_orders_[id].status
              /\ oms_orders_'[id].filled_quantity = oms_orders_[id].filled_quantity
              /\ oms_orders_'[id].price = oms_orders_[id].price
              /\ oms_orders_'[id].quantity = oms_orders_[id].quantity]_vars


(***************************************************************************)
(* Properties of the ThreadPool                                            *)
(***************************************************************************)
AllStopped == \A i \in Workers : worker_pc[i] = "stopped"

\* a worker leaves its loop only when the queue is empty and it has run what
\* it took, so workers that have all exited leave no submitted task undone
TasksRunBeforeExit == AllStopped => tasks_run = 1..submitted

\* C40: once shutdown() is called it returns, with every worker out of its
\* loop, and every task submitted before the call has been executed by then
C40_GracefulShutdown ==
    /\ []TasksRunBeforeExit
    /\ (shutdown_pc # "idle") ~> (shutdown_pc = "done" /\ AllStopped)

====
